---- MODULE Spec2Model ----
(***************************************************************************)
(* Easy-2D-Openpose-Editor: the pose editor's state machine.               *)
(*                                                                         *)
(* The App component (src/services/geminiService.ts, lines 85-1073) owns   *)
(* the keypoints, the constraints, the undo/redo history and the captured  *)
(* transform base; the Editor (src/components/Editor.tsx) turns mouse      *)
(* events into drags and the Sidebar (src/components/Sidebar.tsx) turns    *)
(* slider events into scale / rotate gestures.                             *)
(*                                                                         *)
(* Numbers.  The source computes in IEEE doubles.  Here a coordinate or a  *)
(* distance is an integer number of grid units (one unit = one canvas      *)
(* pixel); a quotient or a square root is rounded to the nearest unit      *)
(* (a tie goes up), as the source's arithmetic rounds to the nearest       *)
(* double.  Statements the source can only meet "within tolerance" are     *)
(* stated within one unit.                                                 *)
(***************************************************************************)
EXTENDS Integers, Sequences, FiniteSets, TLC

VARIABLES
    keypoints,      \* App: useState<Keypoint[]>, joint id -> joint
    constraints,    \* App: Record<"a-b", distance>, here <<a, b>> -> distance
    history,        \* App: { past, future } of { keypoints, constraints }
    transformBase,  \* App: transformBaseRef.current, <<>> (null) or <<snapshot>>
    app,            \* App: the remaining useState cells (see AppInit)
    editor,         \* Editor: draggingId, isDraggingSkeleton
    sidebar,        \* Sidebar: slider values and their start refs
    pending,        \* callbacks in flight: file reads, image loads, detections
    ev,             \* observer: the event handled last
    prev,           \* observer: the program state that event was handled in
    op,             \* observer: the user operation the last events belong to
    trail,          \* observer: the states a run of recorded mutations went through
    env             \* environment: the events the user still sends

prog == <<keypoints, constraints, history, transformBase, app, editor, sidebar, pending>>
vars == <<keypoints, constraints, history, transformBase, app, editor, sidebar, pending,
          ev, prev, op, trail, env>>

----------------------------------------------------------------------------
(* Bounds of the model.                                                    *)

MaxOps == 2         \* operations the user starts in one behaviour of Spec
MaxPast == 3        \* recorded mutations in one behaviour of SpecHistory
MaxToggles == 2     \* toggles in one behaviour of SpecVis
MaxMoves == 2       \* move / update events in one gesture
GridMax == 2        \* SpecDrag: mouse targets lie on GridStep * (0 .. GridMax)
GridStep == 300     \* SpecDrag: pixels between two neighbouring mouse targets
SubUnit == 16       \* sub-unit precision of the ratio in a constraint projection
Fine == 32          \* precision at which the properties recompute a projection

----------------------------------------------------------------------------
(* Static skeleton data: src/constants.ts                                  *)

NumKeypoints == 18
Ids == 0 .. (NumKeypoints - 1)

LIMB_PAIRS ==
    << <<1, 2>>, <<1, 5>>, <<2, 3>>, <<3, 4>>, <<5, 6>>, <<6, 7>>,
       <<1, 8>>, <<8, 9>>, <<9, 10>>, <<1, 11>>, <<11, 12>>, <<12, 13>>,
       <<1, 0>>, <<0, 14>>, <<14, 16>>, <<0, 15>>, <<15, 17>> >>

\* Parent -> children, for the visibility cascade.  A joint that is no key of
\* the map has no children (POSE_HIERARCHY[id] is undefined).
POSE_HIERARCHY(id) ==
    CASE id = 1  -> <<0, 2, 5, 8, 11>>
      [] id = 0  -> <<14, 15>>
      [] id = 2  -> <<3>>
      [] id = 3  -> <<4>>
      [] id = 5  -> <<6>>
      [] id = 6  -> <<7>>
      [] id = 8  -> <<9>>
      [] id = 9  -> <<10>>
      [] id = 11 -> <<12>>
      [] id = 12 -> <<13>>
      [] id = 14 -> <<16>>
      [] id = 15 -> <<17>>
      [] OTHER   -> <<>>

DEFAULT_POSE_COORDS ==
    << <<256, 55>>, <<256, 115>>, <<206, 115>>, <<186, 195>>, <<166, 255>>,
       <<306, 115>>, <<326, 195>>, <<346, 255>>, <<226, 255>>, <<226, 355>>,
       <<226, 455>>, <<286, 255>>, <<286, 355>>, <<286, 455>>, <<246, 45>>,
       <<266, 45>>, <<226, 50>>, <<286, 50>> >>

\* INITIAL_KEYPOINTS[i]; name, color and rgb never change and are left out.
\* anchored is optional in the source (undefined reads as false everywhere).
INITIAL_KEYPOINT ==
    [x |-> 0, y |-> 0, visible |-> TRUE, locked |-> FALSE, anchored |-> FALSE]

----------------------------------------------------------------------------
(* Arithmetic                                                              *)

Abs(a) == IF a < 0 THEN -a ELSE a
Min2(a, b) == IF a <= b THEN a ELSE b
Max2(a, b) == IF a >= b THEN a ELSE b

SetMin(S) == CHOOSE m \in S : \A e \in S : m <= e
SetMax(S) == CHOOSE m \in S : \A e \in S : m >= e

\* a / b for b > 0, rounded to the nearest integer, a tie going up.
Div(a, b) == (2 * a + b) \div (2 * b)

\* The largest r in lo .. hi with r * r <= n (bisection).
RECURSIVE FloorSqrtIn(_, _, _)
FloorSqrtIn(n, lo, hi) ==
    IF lo >= hi THEN lo
    ELSE LET mid == (lo + hi + 1) \div 2
         IN IF mid * mid <= n THEN FloorSqrtIn(n, mid, hi)
            ELSE FloorSqrtIn(n, lo, mid - 1)

RECURSIVE SqrtUpper(_, _)
SqrtUpper(n, h) == IF h * h >= n THEN h ELSE SqrtUpper(n, 2 * h)

\* Math.sqrt(n) for n >= 0, rounded to the nearest integer.
Sqrt(n) ==
    LET r == FloorSqrtIn(n, 0, SqrtUpper(n, 1))
    IN IF n - r * r > r THEN r + 1 ELSE r

\* Math.sqrt(dx * dx + dy * dy)
Distance(ax, ay, bx, by) == Sqrt((ax - bx) * (ax - bx) + (ay - by) * (ay - by))

----------------------------------------------------------------------------
(* Keypoints, constraints, snapshots                                       *)

\* generateFittedKeypoints(targetWidth, targetHeight): the default pose scaled
\* to 75% of the canvas height and centred on the canvas.
RefXs == {DEFAULT_POSE_COORDS[i][1] : i \in 1 .. NumKeypoints}
RefYs == {DEFAULT_POSE_COORDS[i][2] : i \in 1 .. NumKeypoints}
RefHeight == SetMax(RefYs) - SetMin(RefYs)
generateFittedKeypoints(targetWidth, targetHeight) ==
    [i \in Ids |->
        LET def == DEFAULT_POSE_COORDS[i + 1]
            \* (def - refCenter) * (targetHeight * 0.75 / refHeight) + target / 2
            offX == 2 * def[1] - (SetMin(RefXs) + SetMax(RefXs))
            offY == 2 * def[2] - (SetMin(RefYs) + SetMax(RefYs))
        IN [INITIAL_KEYPOINT EXCEPT
              !.x = Div(offX * 3 * targetHeight + 4 * RefHeight * targetWidth,
                        8 * RefHeight),
              !.y = Div(offY * 3 * targetHeight + 4 * RefHeight * targetHeight,
                        8 * RefHeight)]]

\* The empty constraint record {}.
NoConstraints == [k \in {} |-> 0]

\* The key built from the arguments in the order given
ConstraintKey_AsGiven(p1, p2) == <<p1, p2>>

\* [p1, p2].sort((a, b) => a - b).join('-')
ConstraintKey(p1, p2) == <<Min2(p1, p2), Max2(p1, p2)>>

\* The other end of constraint key k seen from joint id:
\* const neighbor = p1 === currId ? p2 : p1
OtherEnd(k, id) == IF k[1] = id THEN k[2] ELSE k[1]

\* A HistoryState { keypoints, constraints }.
Snapshot(kps, cons) == [keypoints |-> kps, constraints |-> cons]

----------------------------------------------------------------------------
(* History: recordHistory, undo, redo                                      *)

recordHistory(hist, kps, cons) ==
    [past |-> Append(hist.past, Snapshot(kps, cons)), future |-> <<>>]

\* A faulty undo, to show what C1 detects: it does not push the state that
\* was current onto future.
undo_ForgetsFuture(hist, kps, cons) ==
    IF Len(hist.past) = 0
    THEN [history |-> hist, keypoints |-> kps, constraints |-> cons]
    ELSE LET previous == hist.past[Len(hist.past)]
         IN [history |-> [past |-> SubSeq(hist.past, 1, Len(hist.past) - 1),
                          future |-> hist.future],
             keypoints |-> previous.keypoints,
             constraints |-> previous.constraints]

\* undo / redo return what they leave in history, keypoints and constraints.
undo(hist, kps, cons) ==
    IF Len(hist.past) = 0
    THEN [history |-> hist, keypoints |-> kps, constraints |-> cons]
    ELSE LET previous == hist.past[Len(hist.past)]
             newPast == SubSeq(hist.past, 1, Len(hist.past) - 1)
         IN [history |-> [past |-> newPast,
                          future |-> <<Snapshot(kps, cons)>> \o hist.future],
             keypoints |-> previous.keypoints,
             constraints |-> previous.constraints]

\* A faulty redo, to show what C3 detects: with an empty future it still
\* pushes the current state onto past.
redo_RecordsAtEmptyFuture(hist, kps, cons) ==
    IF Len(hist.future) = 0
    THEN [history |-> [past |-> Append(hist.past, Snapshot(kps, cons)),
                       future |-> hist.future],
          keypoints |-> kps, constraints |-> cons]
    ELSE [history |-> [past |-> Append(hist.past, Snapshot(kps, cons)),
                       future |-> Tail(hist.future)],
          keypoints |-> hist.future[1].keypoints,
          constraints |-> hist.future[1].constraints]

redo(hist, kps, cons) ==
    IF Len(hist.future) = 0
    THEN [history |-> hist, keypoints |-> kps, constraints |-> cons]
    ELSE LET next == hist.future[1]
             newFuture == Tail(hist.future)
         IN [history |-> [past |-> Append(hist.past, Snapshot(kps, cons)),
                          future |-> newFuture],
             keypoints |-> next.keypoints,
             constraints |-> next.constraints]

----------------------------------------------------------------------------
(* Toggles                                                                 *)

\* setConstraints(prev => ...) of handleToggleConstraint.  prev[key] is tested
\* for truthiness: a stored distance of 0 reads as "no constraint".
toggleConstraint(cons, kps, p1, p2) ==
    LET key == ConstraintKey(p1, p2)
    IN IF key \in DOMAIN cons /\ cons[key] # 0
       THEN [k \in (DOMAIN cons) \ {key} |-> cons[k]]
       ELSE LET dist == Distance(kps[p1].x, kps[p1].y, kps[p2].x, kps[p2].y)
            IN [k \in (DOMAIN cons) \cup {key} |->
                   IF k = key THEN dist ELSE cons[k]]

\* The cascade's queue loop: queue.shift(), then push every child not yet in
\* idsToUpdate.
RECURSIVE PushNew(_, _, _)
PushNew(children, ids, queue) ==
    IF children = <<>> THEN [ids |-> ids, queue |-> queue]
    ELSE IF Head(children) \in ids
         THEN PushNew(Tail(children), ids, queue)
         ELSE PushNew(Tail(children), ids \cup {Head(children)},
                      Append(queue, Head(children)))

\* A faulty cascade, to show what C9 detects: it stops at the children of the
\* toggled joint.
CascadeLoop_Shallow(ids, queue) ==
    IF queue = <<>> THEN ids
    ELSE PushNew(POSE_HIERARCHY(Head(queue)), ids, Tail(queue)).ids

RECURSIVE CascadeLoop(_, _)
CascadeLoop(ids, queue) ==
    IF queue = <<>> THEN ids
    ELSE LET r == PushNew(POSE_HIERARCHY(Head(queue)), ids, Tail(queue))
         IN CascadeLoop(r.ids, r.queue)

\* A faulty idsToUpdate, to show what C8 detects: only the joint itself.
idsToUpdate_SelfOnly(id, newVisible) == {id}

\* idsToUpdate of handleToggleVisibility
idsToUpdate(id, newVisible) ==
    IF ~newVisible THEN CascadeLoop({id}, <<id>>) ELSE {id}

\* A faulty toggle, to show what C10 detects: showing a joint cascades like
\* hiding it.
toggleVisibility_ShowCascades(kps, id) ==
    LET newVisible == ~kps[id].visible
        ids == CascadeLoop({id}, <<id>>)
    IN [i \in Ids |->
          IF i \in ids THEN [kps[i] EXCEPT !.visible = newVisible] ELSE kps[i]]

\* setKeypoints(prev => ...) of handleToggleVisibility
toggleVisibility(kps, id) ==
    LET newVisible == ~kps[id].visible
        ids == idsToUpdate(id, newVisible)
    IN [i \in Ids |->
          IF i \in ids
          THEN [kps[i] EXCEPT !.visible = IF newVisible THEN (i = id) ELSE FALSE]
          ELSE kps[i]]

toggleLock(kps, id) ==
    [i \in Ids |-> IF i = id THEN [kps[i] EXCEPT !.locked = ~kps[i].locked] ELSE kps[i]]

toggleAnchor(kps, id) ==
    [i \in Ids |-> IF i = id THEN [kps[i] EXCEPT !.anchored = ~kps[i].anchored] ELSE kps[i]]

toggleAllLock(kps) ==
    LET allLocked == \A i \in Ids : kps[i].locked
    IN [i \in Ids |-> [kps[i] EXCEPT !.locked = ~allLocked]]

toggleAllVisibility(kps) ==
    LET allVisible == \A i \in Ids : kps[i].visible
    IN [i \in Ids |-> [kps[i] EXCEPT !.visible = ~allVisible]]

----------------------------------------------------------------------------
(* Drag engine: handleKeypointMove, handleSkeletonDrag                     *)

\* One sweep of Object.keys(constraints).forEach for the joint at the head of
\* the queue: every constraint neighbour not yet connected joins the component.
Neighbours(cons, currId) ==
    {OtherEnd(k, currId) : k \in {c \in DOMAIN cons : c[1] = currId \/ c[2] = currId}}

RECURSIVE ComponentLoop(_, _, _)
ComponentLoop(cons, connected, frontier) ==
    IF frontier = {} THEN connected
    ELSE LET currId == CHOOSE f \in frontier : TRUE
             new == Neighbours(cons, currId) \ connected
         IN ComponentLoop(cons, connected \cup new, (frontier \ {currId}) \cup new)

\* connectedIds: the joints reachable from id through constraints.
connectedIds(cons, id) == ComponentLoop(cons, {id}, {id})

\* A faulty translation, to show what C6 detects: only the dragged joint moves.
translateGroup_DraggedOnly(kps, cons, id, x, y) ==
    [i \in Ids |-> IF i = id THEN [kps[i] EXCEPT !.x = x, !.y = y] ELSE kps[i]]

\* TRANSLATION MODE: move the whole locked group.
translateGroup(kps, cons, id, x, y) ==
    LET dx == x - kps[id].x
        dy == y - kps[id].y
        group == connectedIds(cons, id)
    IN [i \in Ids |->
          IF i \in group
          THEN [kps[i] EXCEPT !.x = kps[i].x + dx, !.y = kps[i].y + dy]
          ELSE kps[i]]

\* A faulty projection, to show what C7 detects: the raw target, unscaled.
Projected_Unscaled(otherCoord, delta, targetDist, dx, dy) ==
    (otherCoord + delta) * SubUnit

\* One constraint's candidate coordinate, in 1/SubUnit units: the raw target
\* projected onto the circle of radius targetDist around the partner,
\* other + delta * (targetDist / currentDist).
Projected(otherCoord, delta, targetDist, dx, dy) ==
    otherCoord * SubUnit
      + Div(delta * targetDist * SubUnit * SubUnit,
            Sqrt((dx * dx + dy * dy) * SubUnit * SubUnit))

\* sumX, sumY over the counted candidates
RECURSIVE CandidateSum(_, _, _, _, _)
CandidateSum(kps, cons, id, target, S) ==
    IF S = {} THEN <<0, 0>>
    ELSE LET k == CHOOSE e \in S : TRUE
             o == kps[OtherEnd(k, id)]
             dx == target[1] - o.x
             dy == target[2] - o.y
             rest == CandidateSum(kps, cons, id, target, S \ {k})
         IN <<rest[1] + Projected(o.x, dx, cons[k], dx, dy),
              rest[2] + Projected(o.y, dy, cons[k], dx, dy)>>

\* A resolution that drags the constraint partners along with the joint
resolveConstraints_PullsPartners(kps, cons, id, x, y) ==
    LET partners == {OtherEnd(k, id) : k \in {c \in DOMAIN cons : c[1] = id \/ c[2] = id}}
    IN [i \in Ids |->
          IF i = id THEN [kps[i] EXCEPT !.x = x, !.y = y]
          ELSE IF i \in partners
          THEN [kps[i] EXCEPT !.x = kps[i].x + x - kps[id].x,
                              !.y = kps[i].y + y - kps[id].y]
          ELSE kps[i]]

\* A resolution that takes one constraint's candidate instead of the mean
resolveConstraints_OneCandidate(kps, cons, id, x, y) ==
    LET activeConstraints == {k \in DOMAIN cons : k[1] = id \/ k[2] = id}
        counted == {k \in activeConstraints :
                       x # kps[OtherEnd(k, id)].x \/ y # kps[OtherEnd(k, id)].y}
        one == IF counted = {} THEN {}
               ELSE {CHOOSE k \in counted : \A l \in counted : k[1] + k[2] <= l[1] + l[2]}
        sum == CandidateSum(kps, cons, id, <<x, y>>, one)
        nextX == IF one # {} THEN Div(sum[1], SubUnit) ELSE x
        nextY == IF one # {} THEN Div(sum[2], SubUnit) ELSE y
    IN [i \in Ids |->
          IF i = id THEN [kps[i] EXCEPT !.x = nextX, !.y = nextY] ELSE kps[i]]

\* ROTATION/CONSTRAINT MODE: only the dragged joint moves, to the mean of the
\* candidates of the constraints that touch it.
resolveConstraints(kps, cons, id, x, y) ==
    LET activeConstraints == {k \in DOMAIN cons : k[1] = id \/ k[2] = id}
        \* currentDist > 0
        counted == {k \in activeConstraints :
                       x # kps[OtherEnd(k, id)].x \/ y # kps[OtherEnd(k, id)].y}
        count == Cardinality(counted)
        sum == CandidateSum(kps, cons, id, <<x, y>>, counted)
        nextX == IF count > 0 THEN Div(sum[1], count * SubUnit) ELSE x
        nextY == IF count > 0 THEN Div(sum[2], count * SubUnit) ELSE y
    IN [i \in Ids |->
          IF i = id THEN [kps[i] EXCEPT !.x = nextX, !.y = nextY] ELSE kps[i]]

\* setKeypoints(prev => ...) of handleKeypointMove
handleKeypointMove(kps, cons, mode, id, x, y) ==
    IF mode = "translate"
    THEN translateGroup(kps, cons, id, x, y)
    ELSE resolveConstraints(kps, cons, id, x, y)

handleSkeletonDrag(kps, dx, dy) ==
    [i \in Ids |-> [kps[i] EXCEPT !.x = kps[i].x + dx, !.y = kps[i].y + dy]]

----------------------------------------------------------------------------
(* Transform engine                                                        *)
(* A centre or pivot is a pair of fractions with one denominator,          *)
(* [x, y, den] for (x / den, y / den): (min + max) / 2 and sum / n are     *)
(* exact, as they are in doubles for the coordinates of a canvas, and a    *)
(* result is rounded once, when it is stored in a joint.                   *)

\* getPoseCenter(kps): <<>> for null
getPoseCenter(kps) ==
    LET vis == {i \in Ids : kps[i].visible}
        xs == {kps[i].x : i \in vis}
        ys == {kps[i].y : i \in vis}
    IN IF vis = {} THEN <<>>
       ELSE <<[x |-> SetMin(xs) + SetMax(xs), y |-> SetMin(ys) + SetMax(ys), den |-> 2]>>

RECURSIVE SumOver(_, _, _)
SumOver(kps, S, coord) ==
    IF S = {} THEN 0
    ELSE LET i == CHOOSE e \in S : TRUE
         IN (IF coord = "x" THEN kps[i].x ELSE kps[i].y) + SumOver(kps, S \ {i}, coord)

\* getPivotPoint counting only the anchored joints that are visible
getPivotPoint_VisibleAnchorsOnly(kps, size) ==
    LET anchors == {i \in Ids : kps[i].anchored /\ kps[i].visible}
        center == getPoseCenter(kps)
    IN IF anchors # {}
       THEN [x |-> SumOver(kps, anchors, "x"), y |-> SumOver(kps, anchors, "y"),
             den |-> Cardinality(anchors)]
       ELSE IF center # <<>> THEN center[1]
       ELSE [x |-> size.width, y |-> size.height, den |-> 2]

\* getPivotPoint(kps), with the canvas size it closes over
getPivotPoint(kps, size) ==
    LET anchors == {i \in Ids : kps[i].anchored}
        center == getPoseCenter(kps)
    IN IF anchors # {}
       THEN [x |-> SumOver(kps, anchors, "x"), y |-> SumOver(kps, anchors, "y"),
             den |-> Cardinality(anchors)]
       ELSE IF center # <<>> THEN center[1]
       ELSE [x |-> size.width, y |-> size.height, den |-> 2]

\* c + (c - v) for the centre c = c2 / 2
Reflect(c2, v) == (c2 + (c2 - 2 * v)) \div 2

\* handleFlipHorizontal reflecting the visible joints only
flipHorizontal_VisibleOnly(kps, size) ==
    LET center == getPoseCenter(kps)
        cx2 == IF center # <<>> THEN center[1].x ELSE size.width
    IN [i \in Ids |-> IF kps[i].visible
                      THEN [kps[i] EXCEPT !.x = Reflect(cx2, kps[i].x)]
                      ELSE kps[i]]

\* handleFlipHorizontal about the mean x of the visible joints
flipHorizontal_AboutCentroid(kps, size) ==
    LET vis == {i \in Ids : kps[i].visible}
        n == Cardinality(vis)
    IN [i \in Ids |->
          [kps[i] EXCEPT !.x = IF vis # {}
                               THEN Div(2 * SumOver(kps, vis, "x") - n * kps[i].x, n)
                               ELSE Reflect(size.width, kps[i].x)]]

\* handleFlipHorizontal about the left edge of the visible joints' bounding box
flipHorizontal_AboutLeftEdge(kps, size) ==
    LET vis == {i \in Ids : kps[i].visible}
        cx2 == IF vis # {} THEN 2 * SetMin({kps[i].x : i \in vis}) ELSE size.width
    IN [i \in Ids |-> [kps[i] EXCEPT !.x = Reflect(cx2, kps[i].x)]]

flipHorizontal(kps, size) ==
    LET center == getPoseCenter(kps)
        cx2 == IF center # <<>> THEN center[1].x ELSE size.width
    IN [i \in Ids |-> [kps[i] EXCEPT !.x = Reflect(cx2, kps[i].x)]]

flipVertical(kps, size) ==
    LET center == getPoseCenter(kps)
        cy2 == IF center # <<>> THEN center[1].y ELSE size.height
    IN [i \in Ids |-> [kps[i] EXCEPT !.y = Reflect(cy2, kps[i].y)]]

\* The mirror pairs { r, l }.
MirrorPairs ==
    << <<2, 5>>, <<3, 6>>, <<4, 7>>, <<8, 11>>, <<9, 12>>, <<10, 13>>,
       <<14, 15>>, <<16, 17>> >>

\* axisX taken from Neck whether it is visible or not
mirrorAxis2_NeckAlways(kps, size) == 2 * kps[1].x

\* axisX, doubled: Neck if visible, else Nose if visible, else width / 2
mirrorAxis2(kps, size) ==
    IF kps[1].visible THEN 2 * kps[1].x
    ELSE IF kps[0].visible THEN 2 * kps[0].x
    ELSE size.width

\* A mirror that exchanges the two sides instead of copying one onto the other
mirrorOnto_Swaps(kps, size, srcSide, dstSide) ==
    [i \in Ids |->
        IF \E n \in 1 .. Len(MirrorPairs) : i \in {MirrorPairs[n][1], MirrorPairs[n][2]}
        THEN LET n == CHOOSE m \in 1 .. Len(MirrorPairs) :
                          i \in {MirrorPairs[m][1], MirrorPairs[m][2]}
                 src == kps[IF MirrorPairs[n][1] = i THEN MirrorPairs[n][2]
                            ELSE MirrorPairs[n][1]]
             IN [kps[i] EXCEPT !.x = Reflect(mirrorAxis2(kps, size), src.x),
                               !.y = src.y,
                               !.visible = src.visible]
        ELSE kps[i]]

\* Every destination joint takes its source's reflected x, its y and its
\* visible flag; the sources are read from prev.
mirrorOnto(kps, size, srcSide, dstSide) ==
    [i \in Ids |->
        IF \E n \in 1 .. Len(MirrorPairs) : MirrorPairs[n][dstSide] = i
        THEN LET n == CHOOSE m \in 1 .. Len(MirrorPairs) : MirrorPairs[m][dstSide] = i
                 src == kps[MirrorPairs[n][srcSide]]
             IN [kps[i] EXCEPT !.x = Reflect(mirrorAxis2(kps, size), src.x),
                               !.y = src.y,
                               !.visible = src.visible]
        ELSE kps[i]]

mirrorLeftToRight(kps, size) == mirrorOnto(kps, size, 2, 1)
mirrorRightToLeft(kps, size) == mirrorOnto(kps, size, 1, 2)

\* handleScale about the canvas centre whatever the pose
scaleKeypoints_AboutCanvasCentre(baseKps, size, num, den) ==
    [i \in Ids |->
        [baseKps[i] EXCEPT
           !.x = Div(size.width * den + (baseKps[i].x * 2 - size.width) * num, 2 * den),
           !.y = Div(size.height * den + (baseKps[i].y * 2 - size.height) * num, 2 * den)]]

\* handleScale(factor), factor = num / den, on the captured base:
\* center + (kp - center) * factor, and dist * factor.
scaleKeypoints(baseKps, size, num, den) ==
    LET c == getPivotPoint(baseKps, size)
    IN [i \in Ids |->
          [baseKps[i] EXCEPT
             !.x = Div(c.x * den + (baseKps[i].x * c.den - c.x) * num, c.den * den),
             !.y = Div(c.y * den + (baseKps[i].y * c.den - c.y) * num, c.den * den)]]

scaleConstraints(baseCons, num, den) ==
    [k \in DOMAIN baseCons |-> Div(baseCons[k] * num, den)]

\* Math.cos / Math.sin of a whole number of degrees, times TrigScale, for the
\* multiples of 15 degrees.
FirstQuadrant(r) ==
    CASE r = 0  -> <<1000, 0>>
      [] r = 15 -> <<966, 259>>
      [] r = 30 -> <<866, 500>>
      [] r = 45 -> <<707, 707>>
      [] r = 60 -> <<500, 866>>
      [] r = 75 -> <<259, 966>>
TrigScale == FirstQuadrant(0)[1]
CosSin(deg) ==
    LET a == deg % 360
        q == a \div 90
        t == FirstQuadrant(a % 90)
    IN CASE q = 0 -> <<t[1], t[2]>>
         [] q = 1 -> <<-t[2], t[1]>>
         [] q = 2 -> <<-t[1], -t[2]>>
         [] q = 3 -> <<t[2], -t[1]>>

\* handleTransform rotating the offset first and scaling its x afterwards
transformKeypoints_RotateFirst(baseKps, size, rotateZ, num, den) ==
    LET c == getPivotPoint(baseKps, size)
        cs == CosSin(rotateZ)
        d == c.den * den * TrigScale
    IN [i \in Ids |->
          LET rx == baseKps[i].x * c.den - c.x      \* over c.den
              ry == baseKps[i].y * c.den - c.y      \* over c.den
          IN [baseKps[i] EXCEPT
                !.x = Div(c.x * den * TrigScale + (rx * cs[1] - ry * cs[2]) * num, d),
                !.y = Div((c.y * TrigScale + rx * cs[2] + ry * cs[1]) * den, d)]]

\* handleTransform(rotateZ, scaleX), scaleX = num / den, on the captured base:
\* the x offset from the pivot is scaled, then the offset is rotated.
transformKeypoints(baseKps, size, rotateZ, num, den) ==
    LET c == getPivotPoint(baseKps, size)
        cs == CosSin(rotateZ)
        d == c.den * den * TrigScale
    IN [i \in Ids |->
          LET rx == (baseKps[i].x * c.den - c.x) * num      \* over c.den * den
              ry == (baseKps[i].y * c.den - c.y) * den      \* over c.den * den
          IN [baseKps[i] EXCEPT
                !.x = Div(c.x * den * TrigScale + rx * cs[1] - ry * cs[2], d),
                !.y = Div(c.y * den * TrigScale + rx * cs[2] + ry * cs[1], d)]]

\* handleTransformEnd leaving the stored distances as they are
recomputeConstraints_Keeps(cons, kps) == cons

\* setConstraints(prev => ...) of handleTransformEnd
recomputeConstraints(cons, kps) ==
    [k \in DOMAIN cons |->
        Distance(kps[k[1]].x, kps[k[1]].y, kps[k[2]].x, kps[k[2]].y)]

----------------------------------------------------------------------------
(* Import and detection                                                    *)

\* BODY_25 -> COCO-18: the source index of joint i
Body25Mapping == <<0, 1, 2, 3, 4, 5, 6, 7, 9, 10, 11, 12, 13, 14, 15, 16, 17, 18>>

\* getKeypoint(idx) on the flat array (0-based in the source): <<>> for null
getKeypoint(kpArray, idx) ==
    LET base == idx * 3
    IN IF base + 2 >= Len(kpArray) THEN <<>>
       ELSE <<[x |-> kpArray[base + 1], y |-> kpArray[base + 2], c |-> kpArray[base + 3]]>>

\* Math.round on a coordinate counted in whole units
Round(v) == v

\* The data of handleExportJson: pose_keypoints_2d is the flat array
\* [x0, y0, c0, x1, ...] with c = 1 for a visible joint and 0 for a hidden
\* one; canvas_config is the canvas size; keypoints_details lists x, y and
\* visible per joint.
exportJson(kps, size) ==
    [parses |-> TRUE,
     people |-> "one",
     config |-> <<[width |-> size.width, height |-> size.height]>>,
     kpArray |-> <<[k \in 1 .. 3 * NumKeypoints |->
                      LET kp == kps[(k - 1) \div 3]
                      IN CASE k % 3 = 1 -> Round(kp.x)
                           [] k % 3 = 2 -> Round(kp.y)
                           [] OTHER -> IF kp.visible THEN 1 ELSE 0]>>,
     details |-> [i \in Ids |-> [x |-> Round(kps[i].x), y |-> Round(kps[i].y),
                                 visible |-> kps[i].visible]]]

\* newKeypoints of handleImportJson taking visible from the confidence value
importKeypoints_ReadsConfidence(kps, kpArray) ==
    [i \in Ids |->
        LET srcIdx == IF Len(kpArray) >= 75 THEN Body25Mapping[i + 1] ELSE i
            val == getKeypoint(kpArray, srcIdx)
        IN IF val # <<>>
           THEN [kps[i] EXCEPT !.x = val[1].x, !.y = val[1].y,
                               !.visible = (val[1].c # 0)]
           ELSE kps[i]]

\* newKeypoints of handleImportJson without the BODY_25 remap
importKeypoints_Direct(kps, kpArray) ==
    [i \in Ids |->
        LET val == getKeypoint(kpArray, i)
        IN IF val # <<>>
           THEN [kps[i] EXCEPT !.x = val[1].x, !.y = val[1].y,
                               !.visible = (val[1].x # 0 \/ val[1].y # 0)]
           ELSE kps[i]]

\* newKeypoints of handleImportJson
importKeypoints(kps, kpArray) ==
    [i \in Ids |->
        LET srcIdx == IF Len(kpArray) >= 75 THEN Body25Mapping[i + 1] ELSE i
            val == getKeypoint(kpArray, srcIdx)
        IN IF val # <<>>
           THEN [kps[i] EXCEPT !.x = val[1].x, !.y = val[1].y,
                               !.visible = (val[1].x # 0 \/ val[1].y # 0)]
           ELSE kps[i]]

\* setKeypoints(prev => ...) of handleAutoDetect, for 18 detected points
applyDetected(kps, points) ==
    [i \in Ids |-> [kps[i] EXCEPT !.x = points[i + 1][1], !.y = points[i + 1][2],
                                  !.visible = TRUE]]

----------------------------------------------------------------------------
(* Program state                                                           *)

\* draggingId === null
NoId == -1

AppInit ==
    [size |-> [width |-> 512, height |-> 512],
     lockedJointMode |-> "translate",
     editorMode |-> "pose",
     isTransforming |-> FALSE,
     isProcessing |-> FALSE,
     bgImage |-> FALSE,          \* bgImage !== null
     keepPose |-> TRUE,
     lockCanvas |-> FALSE]

EditorInit == [draggingId |-> NoId, isDraggingSkeleton |-> FALSE, shakingId |-> NoId]

\* Slider values: scale and width in percent, spin in degrees.
SidebarInit ==
    [scaleValue |-> 100, spinValue |-> 0, widthValue |-> 100,
     startScale |-> 100, startSpin |-> 0, startWidth |-> 100]

HistoryInit == [past |-> <<>>, future |-> <<>>]

\* The callbacks in flight, per kind, each with the values its closure holds,
\* and the file openpose_data.json that the last export downloaded.
PendingInit ==
    [import |-> <<>>, detect |-> <<>>, imageRead |-> <<>>, imageLoad |-> <<>>,
     download |-> <<>>]

ProgInit ==
    /\ keypoints = generateFittedKeypoints(AppInit.size.width, AppInit.size.height)
    /\ constraints = NoConstraints
    /\ history = HistoryInit
    /\ transformBase = <<>>
    /\ app = AppInit
    /\ editor = EditorInit
    /\ sidebar = SidebarInit
    /\ pending = PendingInit

\* The current (keypoints, constraints).
Current == Snapshot(keypoints, constraints)

ProgState ==
    [keypoints |-> keypoints, constraints |-> constraints, history |-> history,
     transformBase |-> transformBase, app |-> app, editor |-> editor,
     sidebar |-> sidebar, pending |-> pending]

----------------------------------------------------------------------------
(* Observers and the environment.  They record what happened and decide    *)
(* which events the user sends; no handler reads them.                     *)
(*                                                                         *)
(* ev, prev : the last event and the program state it was handled in.      *)
(* op       : the user operation in progress or just completed.  An atomic *)
(*            operation is "done" at once; a gesture (joint drag, limb     *)
(*            drag, scale, transform) and an asynchronous operation        *)
(*            (import, image upload, detect) is "active" from its Start    *)
(*            event to its End event as long as only its own events        *)
(*            arrive, then "done" ("rejected" when it ends refusing its    *)
(*            input); an undo right after a done operation makes it        *)
(*            "undone".  pre and hist0 hold (keypoints, constraints) and   *)
(*            the history as they were when the operation began.           *)
(* trail    : S0, S1, .. Sn of a run of n recorded mutations from the      *)
(*            state S0, then the number of undo and redo calls made right  *)
(*            after it.                                                    *)
(* env      : the user.  script: events the user sends first, in this      *)
(*            order; ops: the operations the user may still start after    *)
(*            the script; moves: the update events the operation in        *)
(*            progress may still get; sequential: the user lets an         *)
(*            operation end before sending anything else; trailOnly: the   *)
(*            user only records mutations, then undoes, then redoes.       *)

OpIdle == [kind |-> "none", stage |-> "idle", pre |-> <<>>, hist0 |-> <<>>]

TrailOff == [phase |-> "off", states |-> <<>>, undone |-> 0, redone |-> 0]

TrailFrom(snapshot) ==
    [phase |-> "mut", states |-> <<snapshot>>, undone |-> 0, redone |-> 0]

\* The event belongs to the operation in progress.
Own(role, kind) ==
    op.stage = "active" /\ op.kind = kind /\ role \in {"update", "end", "reject"}

OpNext(role, kind) ==
    CASE role = "atomic" ->
           [kind |-> kind, stage |-> "done", pre |-> <<Current>>, hist0 |-> <<history>>]
      [] role = "start" ->
           [kind |-> kind, stage |-> "active", pre |-> <<Current>>, hist0 |-> <<history>>]
      [] role = "update" /\ Own(role, kind) -> op
      [] role = "end" /\ Own(role, kind) -> [op EXCEPT !.stage = "done"]
      [] role = "reject" /\ Own(role, kind) -> [op EXCEPT !.stage = "rejected"]
      [] role = "undo" /\ op.stage = "done" -> [op EXCEPT !.stage = "undone"]
      [] OTHER -> OpIdle

\* after: the (keypoints, constraints) the event leaves.
TrailNext(role, kind, after) ==
    LET n == Len(trail.states) - 1
    IN CASE role = "atomic" /\ trail.phase = "mut" ->
              [trail EXCEPT !.states = Append(@, after)]
         [] role = "start" /\ trail.phase = "mut" /\ op.stage # "active" -> trail
         [] role = "update" /\ trail.phase = "mut" /\ Own(role, kind) -> trail
         [] role = "end" /\ trail.phase = "mut" /\ Own(role, kind) ->
              [trail EXCEPT !.states = Append(@, after)]
         [] role = "undo" /\ trail.phase \in {"mut", "undo"} /\ op.stage # "active"
                /\ trail.undone < n ->
              [trail EXCEPT !.phase = "undo", !.undone = @ + 1]
         [] role = "redo" /\ trail.phase \in {"undo", "redo"} /\ trail.undone = n
                /\ trail.redone < n ->
              [trail EXCEPT !.phase = "redo", !.redone = @ + 1]
         [] OTHER -> TrailOff

Observe(name, a, b, role, kind) ==
    LET scripted == env.script # <<>>
        own == Own(role, kind)
        after == Snapshot(keypoints', constraints')
    IN /\ IF scripted
          THEN <<name, a, b>> = Head(env.script)
          ELSE /\ (env.sequential /\ op.stage = "active") => own
               /\ IF own THEN (role = "update" => env.moves > 0) ELSE env.ops > 0
       /\ env' = IF scripted THEN [env EXCEPT !.script = Tail(@)]
                 ELSE IF own
                      THEN [env EXCEPT !.moves = IF role = "update" THEN @ - 1 ELSE @]
                      ELSE [env EXCEPT !.ops = @ - 1, !.moves = env.maxMoves]
       /\ ev' = [name |-> name, a |-> a, b |-> b]
       /\ prev' = ProgState
       /\ op' = IF scripted THEN OpIdle ELSE OpNext(role, kind)
       /\ trail' = IF scripted THEN TrailFrom(after) ELSE TrailNext(role, kind, after)
       /\ env.trailOnly => (trail'.phase # "off" /\ Len(trail'.states) <= MaxPast + 1)

ObserveInit(script, ops, moves, sequential, trailOnly) ==
    /\ env = [script |-> script, ops |-> ops, moves |-> moves, maxMoves |-> moves,
              sequential |-> sequential, trailOnly |-> trailOnly]
    /\ ev = [name |-> "init", a |-> 0, b |-> 0]
    /\ prev = ProgState
    /\ op = OpIdle
    /\ trail = TrailFrom(Current)

----------------------------------------------------------------------------
(* Events: history and the atomic mutations                                *)

\* Ctrl+Z, or the Undo button
Undo ==
    /\ LET r == undo(history, keypoints, constraints)
       IN /\ history' = r.history
          /\ keypoints' = r.keypoints
          /\ constraints' = r.constraints
    /\ UNCHANGED <<transformBase, app, editor, sidebar, pending>>
    /\ Observe("undo", 0, 0, "undo", "undo")

\* Ctrl+Shift+Z, Ctrl+Y, or the Redo button
Redo ==
    /\ LET r == redo(history, keypoints, constraints)
       IN /\ history' = r.history
          /\ keypoints' = r.keypoints
          /\ constraints' = r.constraints
    /\ UNCHANGED <<transformBase, app, editor, sidebar, pending>>
    /\ Observe("redo", 0, 0, "redo", "redo")

\* A handler that calls recordHistory() and then sets keypoints and
\* constraints to kps and cons.
Recorded(name, a, b, kps, cons) ==
    /\ history' = recordHistory(history, keypoints, constraints)
    /\ keypoints' = kps
    /\ constraints' = cons
    /\ UNCHANGED <<transformBase, app, editor, sidebar, pending>>
    /\ Observe(name, a, b, "atomic", name)

handleToggleConstraint(p1, p2) ==
    Recorded("toggleConstraint", p1, p2, keypoints,
             toggleConstraint(constraints, keypoints, p1, p2))

handleToggleVisibility(id) ==
    Recorded("toggleVisibility", id, 0, toggleVisibility(keypoints, id), constraints)

handleToggleLock(id) ==
    Recorded("toggleLock", id, 0, toggleLock(keypoints, id), constraints)

\* A faulty handler, to show what C4 detects: it does not call recordHistory().
handleToggleAnchor_Unrecorded(id) ==
    /\ keypoints' = toggleAnchor(keypoints, id)
    /\ UNCHANGED <<constraints, history, transformBase, app, editor, sidebar, pending>>
    /\ Observe("toggleAnchor", id, 0, "atomic", "toggleAnchor")

handleToggleAnchor(id) ==
    Recorded("toggleAnchor", id, 0, toggleAnchor(keypoints, id), constraints)

handleToggleAllLock ==
    Recorded("toggleAllLock", 0, 0, toggleAllLock(keypoints), constraints)

handleToggleAllVisibility ==
    Recorded("toggleAllVisibility", 0, 0, toggleAllVisibility(keypoints), constraints)

handleReset ==
    /\ history' = recordHistory(history, keypoints, constraints)
    /\ constraints' = NoConstraints
    /\ keypoints' = generateFittedKeypoints(app.size.width, app.size.height)
    \* resetSliders() of the Sidebar's Reset button
    /\ sidebar' = [sidebar EXCEPT !.spinValue = 0, !.widthValue = 100,
                                  !.scaleValue = 100]
    /\ UNCHANGED <<transformBase, app, editor, pending>>
    /\ Observe("reset", 0, 0, "atomic", "reset")

handleFlipHorizontal ==
    Recorded("flipHorizontal", 0, 0, flipHorizontal(keypoints, app.size), constraints)

handleFlipVertical ==
    Recorded("flipVertical", 0, 0, flipVertical(keypoints, app.size), constraints)

handleMirrorLeftToRight ==
    Recorded("mirrorLeftToRight", 0, 0, mirrorLeftToRight(keypoints, app.size),
             constraints)

handleMirrorRightToLeft ==
    Recorded("mirrorRightToLeft", 0, 0, mirrorRightToLeft(keypoints, app.size),
             constraints)

handleFactoryReset ==
    \* isProcessing and isTransforming are not reset
    /\ app' = [AppInit EXCEPT !.isTransforming = app.isTransforming,
                              !.isProcessing = app.isProcessing]
    /\ constraints' = NoConstraints
    /\ keypoints' = generateFittedKeypoints(512, 512)
    /\ history' = HistoryInit
    /\ UNCHANGED <<transformBase, editor, sidebar, pending>>
    /\ Observe("factoryReset", 0, 0, "other", "none")

setLockedJointMode(mode) ==
    /\ app' = [app EXCEPT !.lockedJointMode = mode]
    /\ UNCHANGED <<keypoints, constraints, history, transformBase, editor, sidebar,
                   pending>>
    /\ Observe("setLockedJointMode", IF mode = "rotate" THEN 1 ELSE 0, 0, "other", "none")

setEditorMode(mode) ==
    /\ app' = [app EXCEPT !.editorMode = mode]
    /\ UNCHANGED <<keypoints, constraints, history, transformBase, editor, sidebar,
                   pending>>
    /\ Observe("setEditorMode", IF mode = "background" THEN 1 ELSE 0, 0, "other", "none")

onSizeChange(w, h) ==
    /\ app' = [app EXCEPT !.size = [width |-> w, height |-> h]]
    /\ UNCHANGED <<keypoints, constraints, history, transformBase, editor, sidebar,
                   pending>>
    /\ Observe("sizeChange", w, h, "other", "none")

onToggleKeepPose ==
    /\ app' = [app EXCEPT !.keepPose = ~app.keepPose]
    /\ UNCHANGED <<keypoints, constraints, history, transformBase, editor, sidebar,
                   pending>>
    /\ Observe("toggleKeepPose", 0, 0, "other", "none")

onToggleLockCanvas ==
    /\ app' = [app EXCEPT !.lockCanvas = ~app.lockCanvas]
    /\ UNCHANGED <<keypoints, constraints, history, transformBase, editor, sidebar,
                   pending>>
    /\ Observe("toggleLockCanvas", 0, 0, "other", "none")

----------------------------------------------------------------------------
(* Events: the Editor's mouse gestures                                     *)

\* A sequence without its i-th element.
RemoveAt(q, i) == SubSeq(q, 1, i - 1) \o SubSeq(q, i + 1, Len(q))

\* Math.max(0, Math.min(limit, v))
Clamp(v, limit) == Max2(0, Min2(limit, v))

\* The joint's <g> is rendered, and takes mouse events, only while visible.
JointRendered(id) == keypoints[id].visible

\* A limb's <g> is rendered only while both its joints are visible.
LimbRendered ==
    \E n \in 1 .. Len(LIMB_PAIRS) :
        keypoints[LIMB_PAIRS[n][1]].visible /\ keypoints[LIMB_PAIRS[n][2]].visible

\* The window's mousemove / mouseup listeners are attached.
Listening == editor.draggingId # NoId \/ editor.isDraggingSkeleton

\* Sidebar, "Lock Distances": the button of the n-th row of LIMB_PAIRS.map(...)
\* calls onToggleConstraint(p1, p2).
LockDistanceClick(n) ==
    handleToggleConstraint(LIMB_PAIRS[n][1], LIMB_PAIRS[n][2])

\* Editor, context menu of joint id: the rows are the LIMB_PAIRS that include
\* the joint, and a row's button calls onToggleConstraint(pair[0], pair[1]).
ContextMenuLimbClick(id, n) ==
    /\ JointRendered(id)
    /\ id \in {LIMB_PAIRS[n][1], LIMB_PAIRS[n][2]}
    /\ handleToggleConstraint(LIMB_PAIRS[n][1], LIMB_PAIRS[n][2])

\* handleMouseDown(id, e), left button, on an unlocked joint
MouseDown(id) ==
    /\ app.editorMode # "background"
    /\ ~app.isTransforming                  \* isReadOnly
    /\ JointRendered(id)
    /\ ~keypoints[id].locked
    /\ history' = recordHistory(history, keypoints, constraints)   \* onDragStart()
    /\ editor' = [editor EXCEPT !.draggingId = id]
    /\ UNCHANGED <<keypoints, constraints, transformBase, app, sidebar, pending>>
    /\ Observe("mouseDown", id, 0, "start", "jointDrag")

\* handleMouseDown without the locked test: the drag starts
MouseDownLocked_StartsDrag(id) ==
    /\ app.editorMode # "background"
    /\ ~app.isTransforming
    /\ JointRendered(id)
    /\ keypoints[id].locked
    /\ history' = recordHistory(history, keypoints, constraints)
    /\ editor' = [editor EXCEPT !.draggingId = id]
    /\ UNCHANGED <<keypoints, constraints, transformBase, app, sidebar, pending>>
    /\ Observe("mouseDownLocked", id, 0, "other", "none")

\* handleMouseDown(id, e), left button, on a locked joint: the shake cue
MouseDownLocked(id) ==
    /\ app.editorMode # "background"
    /\ ~app.isTransforming
    /\ JointRendered(id)
    /\ keypoints[id].locked
    /\ editor' = [editor EXCEPT !.shakingId = id]
    /\ UNCHANGED <<keypoints, constraints, history, transformBase, app, sidebar,
                   pending>>
    /\ Observe("mouseDownLocked", id, 0, "other", "none")

\* setTimeout(() => setShakingId(null), 400)
ShakeTimeout ==
    /\ editor.shakingId # NoId
    /\ editor' = [editor EXCEPT !.shakingId = NoId]
    /\ UNCHANGED <<keypoints, constraints, history, transformBase, app, sidebar,
                   pending>>
    /\ Observe("shakeTimeout", 0, 0, "other", "none")

\* handleLimbMouseDown(e), left button
LimbMouseDown ==
    /\ app.editorMode # "background"
    /\ ~app.isTransforming
    /\ LimbRendered
    /\ history' = recordHistory(history, keypoints, constraints)   \* onDragStart()
    /\ editor' = [editor EXCEPT !.isDraggingSkeleton = TRUE]
    /\ UNCHANGED <<keypoints, constraints, transformBase, app, sidebar, pending>>
    /\ Observe("limbMouseDown", 0, 0, "start", "limbDrag")

\* A faulty handler, to show what C5 detects: it records history on every move.
MouseMoveJoint_Records(x, y) ==
    /\ editor.draggingId # NoId
    /\ history' = recordHistory(history, keypoints, constraints)
    /\ keypoints' = handleKeypointMove(keypoints, constraints, app.lockedJointMode,
                                       editor.draggingId,
                                       Clamp(x, app.size.width),
                                       Clamp(y, app.size.height))
    /\ UNCHANGED <<constraints, transformBase, app, editor, sidebar, pending>>
    /\ Observe("mouseMoveJoint", x, y, "update", "jointDrag")

\* handleMouseMove(e) while a joint is dragged: the mouse is at (x, y)
MouseMoveJoint(x, y) ==
    /\ editor.draggingId # NoId
    /\ keypoints' = handleKeypointMove(keypoints, constraints, app.lockedJointMode,
                                       editor.draggingId,
                                       Clamp(x, app.size.width),
                                       Clamp(y, app.size.height))
    /\ UNCHANGED <<constraints, history, transformBase, app, editor, sidebar, pending>>
    /\ Observe("mouseMoveJoint", x, y, "update", "jointDrag")

\* handleMouseMove(e) while the skeleton is dragged: the mouse moved by (dx, dy)
MouseMoveSkeleton(dx, dy) ==
    /\ editor.draggingId = NoId
    /\ editor.isDraggingSkeleton
    /\ keypoints' = handleSkeletonDrag(keypoints, dx, dy)
    /\ UNCHANGED <<constraints, history, transformBase, app, editor, sidebar, pending>>
    /\ Observe("mouseMoveSkeleton", dx, dy, "update", "limbDrag")

\* handleMouseUp()
MouseUp ==
    /\ Listening
    /\ editor' = [editor EXCEPT !.draggingId = NoId, !.isDraggingSkeleton = FALSE]
    /\ UNCHANGED <<keypoints, constraints, history, transformBase, app, sidebar,
                   pending>>
    /\ Observe("mouseUp", 0, 0, "end",
               IF editor.draggingId # NoId THEN "jointDrag" ELSE "limbDrag")

----------------------------------------------------------------------------
(* Events: the Sidebar's slider gestures                                   *)

\* onPointerDown of the scale slider: handleScaleStart
ScalePointerDown ==
    /\ sidebar' = [sidebar EXCEPT !.startScale = sidebar.scaleValue]
    /\ history' = recordHistory(history, keypoints, constraints)
    /\ transformBase' = <<Current>>
    /\ UNCHANGED <<keypoints, constraints, app, editor, pending>>
    /\ Observe("scaleStart", 0, 0, "start", "scale")

\* handleScale applying the factor to the current pose, not to the base
ScaleChange_Incremental(val) ==
    /\ sidebar' = [sidebar EXCEPT !.scaleValue = val]
    /\ IF transformBase = <<>>
       THEN UNCHANGED <<keypoints, constraints>>
       ELSE /\ keypoints' = scaleKeypoints(keypoints, app.size, val, sidebar.startScale)
            /\ constraints' = scaleConstraints(constraints, val, sidebar.startScale)
    /\ UNCHANGED <<history, transformBase, app, editor, pending>>
    /\ Observe("scale", val, sidebar.startScale, "update", "scale")

\* onChange of the scale slider: handleScale(val / start)
ScaleChange(val) ==
    /\ sidebar' = [sidebar EXCEPT !.scaleValue = val]
    /\ IF transformBase = <<>>
       THEN UNCHANGED <<keypoints, constraints>>
       ELSE /\ keypoints' = scaleKeypoints(transformBase[1].keypoints, app.size,
                                           val, sidebar.startScale)
            /\ constraints' = scaleConstraints(transformBase[1].constraints,
                                               val, sidebar.startScale)
    /\ UNCHANGED <<history, transformBase, app, editor, pending>>
    /\ Observe("scale", val, sidebar.startScale, "update", "scale")

\* onPointerUp of the scale slider: handleScalePointerUp
ScalePointerUp ==
    /\ sidebar' = [sidebar EXCEPT !.scaleValue = 100]
    /\ UNCHANGED <<keypoints, constraints, history, transformBase, app, editor,
                   pending>>
    /\ Observe("scaleEnd", 0, 0, "end", "scale")

\* onPointerDown of the spin or the width slider: handleTransformStart
TransformPointerDown(type) ==
    /\ sidebar' = IF type = "spin"
                  THEN [sidebar EXCEPT !.startSpin = sidebar.spinValue]
                  ELSE [sidebar EXCEPT !.startWidth = sidebar.widthValue]
    /\ history' = recordHistory(history, keypoints, constraints)
    /\ app' = [app EXCEPT !.isTransforming = TRUE]
    /\ transformBase' = <<Current>>
    /\ UNCHANGED <<keypoints, constraints, editor, pending>>
    /\ Observe("transformStart", 0, 0, "start", "transform")

\* handleTransform falling back on the current pose when no base is captured
Transformed_FromCurrent(rotateZ, num, den) ==
    keypoints' = transformKeypoints(IF transformBase = <<>> THEN keypoints
                                    ELSE transformBase[1].keypoints,
                                    app.size, rotateZ, num, den)

\* handleTransform(rotateZ, num / den)
Transformed(rotateZ, num, den) ==
    IF transformBase = <<>>
    THEN UNCHANGED keypoints
    ELSE keypoints' = transformKeypoints(transformBase[1].keypoints, app.size,
                                         rotateZ, num, den)

\* onChange of the spin slider: onTransform(val - start, 1)
SpinChange(val) ==
    /\ sidebar' = [sidebar EXCEPT !.spinValue = val]
    /\ Transformed(val - sidebar.startSpin, 1, 1)
    /\ UNCHANGED <<constraints, history, transformBase, app, editor, pending>>
    /\ Observe("spin", val, sidebar.startSpin, "update", "transform")

\* onChange of the width slider re-measuring the locked lengths on every update
WidthChange_RecomputesLive(val) ==
    /\ sidebar' = [sidebar EXCEPT !.widthValue = val]
    /\ Transformed(0, val, sidebar.startWidth)
    /\ constraints' = recomputeConstraints(constraints, keypoints')
    /\ UNCHANGED <<history, transformBase, app, editor, pending>>
    /\ Observe("width", val, sidebar.startWidth, "update", "transform")

\* onChange of the width slider: onTransform(0, val / start)
WidthChange(val) ==
    /\ sidebar' = [sidebar EXCEPT !.widthValue = val]
    /\ Transformed(0, val, sidebar.startWidth)
    /\ UNCHANGED <<constraints, history, transformBase, app, editor, pending>>
    /\ Observe("width", val, sidebar.startWidth, "update", "transform")

\* handleTransform(rotateZ, scaleX) with scaleX = percent / 100
handleTransform(rotateZ, percent) ==
    /\ Transformed(rotateZ, percent, 100)
    /\ UNCHANGED <<constraints, history, transformBase, app, editor, sidebar, pending>>
    /\ Observe("transform", rotateZ, percent, "update", "transform")

\* onPointerUp of the spin or the width slider: handleTransformEnd
TransformPointerUp ==
    /\ app' = [app EXCEPT !.isTransforming = FALSE]
    /\ transformBase' = <<>>
    /\ constraints' = recomputeConstraints(constraints, keypoints)
    /\ UNCHANGED <<keypoints, history, editor, sidebar, pending>>
    /\ Observe("transformEnd", 0, 0, "end", "transform")

----------------------------------------------------------------------------
(* Inputs                                                                  *)

\* The inputs the events are tried with.
ToggleIds == {1, 3}
ConstraintInputs == {<<1, 2>>, <<2, 3>>}
DragIds == {2, 3}
MousePositions == {<<150, 200>>, <<600, -20>>}
SkeletonMoves == {<<10, -5>>}
ScaleValues == {50, 150}
SpinValues == {90, -45}
WidthValues == {50}
CanvasSizes == {<<256, 384>>}
ImageSizes == <<[width |-> 640, height |-> 480]>>

\* A flat pose_keypoints_2d array of n joints; joint 4 sits at (0, 0).
FlatPose(n) ==
    [k \in 1 .. 3 * n |->
        LET j == (k - 1) \div 3
        IN IF j = 4 THEN 0
           ELSE CASE k % 3 = 1 -> 40 + 20 * j
                  [] k % 3 = 2 -> 30 + 7 * j
                  [] OTHER -> 1]

JsonFile(people, config, kpArray) ==
    [parses |-> TRUE, people |-> people, config |-> config, kpArray |-> kpArray]

FileCoco18 == JsonFile("one", <<>>, <<FlatPose(18)>>)
FileBody25 == JsonFile("one", <<[width |-> 300, height |-> 200]>>, <<FlatPose(25)>>)
FileShort == JsonFile("one", <<>>, <<FlatPose(2)>>)
FileNoKeypoints == JsonFile("one", <<[width |-> 300, height |-> 200]>>, <<>>)
FileNoPeople == JsonFile("missing", <<>>, <<>>)
FileEmptyPeople == JsonFile("empty", <<>>, <<>>)
FileMalformed == [JsonFile("missing", <<>>, <<>>) EXCEPT !.parses = FALSE]

Files == <<FileCoco18, FileBody25, FileShort, FileNoKeypoints, FileNoPeople,
           FileEmptyPeople, FileMalformed>>

\* What detectPose may resolve to: 18 points, null, or too few points.
DetectedPose == [i \in 1 .. NumKeypoints |-> <<100 + 10 * i, 50 + 20 * i>>]
DetectResults == <<DetectedPose, <<>>, SubSeq(DetectedPose, 1, 17)>>

----------------------------------------------------------------------------
(* Events: asynchronous operations                                         *)
(* A file is [parses, people, config, kpArray]: whether JSON.parse         *)
(* succeeds, whether data.people is "missing", "empty" or "one" person,    *)
(* canvas_config as <<>> or <<[width, height]>>, and pose_keypoints_2d as  *)
(* <<>> (missing) or <<the flat array>>.                                   *)

\* handleImportJson(e): the file is handed to the FileReader; reader.onload
\* closes over this render's keypoints and recordHistory.
ImportJson(f) ==
    /\ pending' = [pending EXCEPT !.import =
                     Append(@, [kps |-> keypoints, cons |-> constraints,
                                file |-> Files[f]])]
    /\ UNCHANGED <<keypoints, constraints, history, transformBase, app, editor, sidebar>>
    /\ Observe("importJson", f, 0, "start", "import")

\* handleExportJson(): the file is downloaded; no state of the editor changes.
handleExportJson ==
    /\ pending' = [pending EXCEPT !.download = <<exportJson(keypoints, app.size)>>]
    /\ UNCHANGED <<keypoints, constraints, history, transformBase, app, editor, sidebar>>
    /\ Observe("exportJson", 0, 0, "other", "none")

\* handleImportJson(e) with the downloaded openpose_data.json as the file
ImportExported ==
    /\ pending.download # <<>>
    /\ pending' = [pending EXCEPT !.import =
                     Append(@, [kps |-> keypoints, cons |-> constraints,
                                file |-> pending.download[1]])]
    /\ UNCHANGED <<keypoints, constraints, history, transformBase, app, editor, sidebar>>
    /\ Observe("importJson", 0, 0, "start", "import")

\* What reader.onload does.
ImportAccepted(file) == file.parses /\ file.people = "one"

\* reader.onload of the n-th file read in flight
ImportLoaded(n) ==
    /\ n \in 1 .. Len(pending.import)
    /\ LET c == pending.import[n]
           f == c.file
       IN /\ IF ~ImportAccepted(f)
             THEN UNCHANGED <<keypoints, constraints, history, app>>   \* alert(...)
             ELSE /\ history' = recordHistory(history, c.kps, c.cons)
                  /\ app' = IF f.config # <<>> /\ f.config[1].width # 0
                               /\ f.config[1].height # 0
                            THEN [app EXCEPT !.size = f.config[1]]
                            ELSE app
                  /\ IF f.kpArray = <<>>
                     THEN UNCHANGED <<keypoints, constraints>>   \* "No 2D keypoints found."
                     ELSE /\ keypoints' = importKeypoints(c.kps, f.kpArray[1])
                          /\ constraints' = NoConstraints
          /\ Observe("importLoaded", n, 0,
                     IF ImportAccepted(f) /\ f.kpArray # <<>> THEN "end" ELSE "reject",
                     "import")
    /\ pending' = [pending EXCEPT !.import = RemoveAt(@, n)]
    /\ UNCHANGED <<transformBase, editor, sidebar>>

\* handleImageUpload(e): img is the image's [width, height]
ImageUpload(i) ==
    /\ history' = IF ~app.keepPose
                  THEN recordHistory(history, keypoints, constraints)
                  ELSE history
    /\ pending' = [pending EXCEPT !.imageRead =
                     Append(@, [keepPose |-> app.keepPose, lockCanvas |-> app.lockCanvas,
                                size |-> app.size, img |-> ImageSizes[i]])]
    /\ UNCHANGED <<keypoints, constraints, transformBase, app, editor, sidebar>>
    /\ Observe("imageUpload", i, 0, "start", "imageUpload")

\* reader.onload of handleImageUpload
ImageRead(n) ==
    /\ n \in 1 .. Len(pending.imageRead)
    /\ app' = [app EXCEPT !.bgImage = TRUE]
    /\ pending' = [pending EXCEPT !.imageRead = RemoveAt(@, n),
                                  !.imageLoad = Append(@, pending.imageRead[n])]
    /\ UNCHANGED <<keypoints, constraints, history, transformBase, editor, sidebar>>
    /\ Observe("imageRead", n, 0, "update", "imageUpload")

\* img.onload of handleImageUpload
ImageLoaded(n) ==
    /\ n \in 1 .. Len(pending.imageLoad)
    /\ LET c == pending.imageLoad[n]
           target == IF ~c.lockCanvas THEN c.img ELSE c.size
       IN /\ app' = IF ~c.lockCanvas THEN [app EXCEPT !.size = target] ELSE app
          /\ IF ~c.keepPose
             THEN /\ keypoints' = generateFittedKeypoints(target.width, target.height)
                  /\ constraints' = NoConstraints
             ELSE UNCHANGED <<keypoints, constraints>>
    /\ pending' = [pending EXCEPT !.imageLoad = RemoveAt(@, n)]
    /\ UNCHANGED <<history, transformBase, editor, sidebar>>
    /\ Observe("imageLoaded", n, 0, "end", "imageUpload")

\* handleAutoDetect(), up to the await; the button is disabled while
\* processing.  The call in flight keeps the keypoints and constraints of the
\* render it was started in, which are what its recordHistory() pushed.
AutoDetect ==
    /\ app.bgImage
    /\ ~app.isProcessing
    /\ history' = recordHistory(history, keypoints, constraints)
    /\ app' = [app EXCEPT !.isProcessing = TRUE]
    /\ constraints' = NoConstraints
    /\ pending' = [pending EXCEPT !.detect =
                     Append(@, [kps |-> keypoints, cons |-> constraints])]
    /\ UNCHANGED <<keypoints, transformBase, editor, sidebar>>
    /\ Observe("autoDetect", 0, 0, "start", "detect")

\* handleAutoDetect() with no background image: if (!bgImage) return;
AutoDetectWithoutImage ==
    /\ ~app.bgImage
    /\ ~app.isProcessing
    /\ UNCHANGED prog
    /\ Observe("autoDetectNoImage", 0, 0, "other", "none")

\* handleAutoDetect() after the await, with setIsProcessing(false) at the end
\* of the try block instead of in finally
DetectDone_NoFinally(r) ==
    /\ pending.detect # <<>>
    /\ keypoints' = IF Len(DetectResults[r]) = NumKeypoints
                    THEN applyDetected(keypoints, DetectResults[r])
                    ELSE keypoints
    /\ app' = [app EXCEPT !.isProcessing = (Len(DetectResults[r]) # NumKeypoints)]
    /\ pending' = [pending EXCEPT !.detect = Tail(@)]
    /\ UNCHANGED <<constraints, history, transformBase, editor, sidebar>>
    /\ Observe("detectDone", r, 0, "end", "detect")

\* handleAutoDetect() after the await: points is what detectPose resolved to,
\* <<>> for null (detectPose catches its own errors and returns null).
DetectDone(r) ==
    /\ pending.detect # <<>>
    /\ keypoints' = IF Len(DetectResults[r]) = NumKeypoints
                    THEN applyDetected(keypoints, DetectResults[r])
                    ELSE keypoints                          \* alert(...)
    /\ app' = [app EXCEPT !.isProcessing = FALSE]
    /\ pending' = [pending EXCEPT !.detect = Tail(@)]
    /\ UNCHANGED <<constraints, history, transformBase, editor, sidebar>>
    /\ Observe("detectDone", r, 0, "end", "detect")

----------------------------------------------------------------------------
(* Spec: the editor from its initial state, every event with a few inputs, *)
(* for a user who lets an operation (a gesture, a file read, a detection)  *)
(* end before starting the next one.  SpecAsync below drops that.          *)

\* What the user may do before the bounded exploration starts: nothing, or
\* load a background image, drag RShoulder, lock two limb lengths, lock a
\* joint, anchor a joint, hide a joint and undo that.
Prelude ==
    << <<"imageUpload", 1, 0>>, <<"imageRead", 1, 0>>, <<"imageLoaded", 1, 0>>,
       <<"mouseDown", 2, 0>>, <<"mouseMoveJoint", 150, 200>>, <<"mouseUp", 0, 0>>,
       <<"toggleConstraint", 1, 2>>, <<"toggleConstraint", 2, 3>>,
       <<"toggleLock", 1, 0>>, <<"toggleAnchor", 3, 0>>,
       <<"toggleVisibility", 3, 0>>, <<"undo", 0, 0>> >>

Init ==
    /\ ProgInit
    /\ \E script \in {<<>>, Prelude} : ObserveInit(script, MaxOps, MaxMoves, TRUE, FALSE)

Next ==
    \/ Undo
    \/ Redo
    \/ \E c \in ConstraintInputs : handleToggleConstraint(c[1], c[2])
    \/ \E id \in ToggleIds : handleToggleVisibility(id)
    \/ \E id \in ToggleIds : handleToggleLock(id)
    \/ \E id \in ToggleIds : handleToggleAnchor(id)
    \/ handleToggleAllLock
    \/ handleToggleAllVisibility
    \/ handleReset
    \/ handleFlipHorizontal
    \/ handleFlipVertical
    \/ handleMirrorLeftToRight
    \/ handleMirrorRightToLeft
    \/ handleFactoryReset
    \/ \E m \in {"translate", "rotate"} : setLockedJointMode(m)
    \/ \E m \in {"pose", "background"} : setEditorMode(m)
    \/ \E sz \in CanvasSizes : onSizeChange(sz[1], sz[2])
    \/ onToggleKeepPose
    \/ onToggleLockCanvas
    \/ \E id \in DragIds : MouseDown(id)
    \/ \E id \in DragIds \cup ToggleIds : MouseDownLocked(id)
    \/ ShakeTimeout
    \/ LimbMouseDown
    \/ \E m \in MousePositions : MouseMoveJoint(m[1], m[2])
    \/ \E m \in SkeletonMoves : MouseMoveSkeleton(m[1], m[2])
    \/ MouseUp
    \/ ScalePointerDown
    \/ \E v \in ScaleValues : ScaleChange(v)
    \/ ScalePointerUp
    \/ \E t \in {"spin", "width"} : TransformPointerDown(t)
    \/ \E v \in SpinValues : SpinChange(v)
    \/ \E v \in WidthValues : WidthChange(v)
    \/ TransformPointerUp
    \/ \E f \in 1 .. Len(Files) : ImportJson(f)
    \/ \E n \in 1 .. 2 : ImportLoaded(n)
    \/ \E i \in 1 .. Len(ImageSizes) : ImageUpload(i)
    \/ \E n \in 1 .. 2 : ImageRead(n)
    \/ \E n \in 1 .. 2 : ImageLoaded(n)
    \/ AutoDetect
    \/ \E r \in 1 .. Len(DetectResults) : DetectDone(r)

Spec == Init /\ [][Next]_vars

----------------------------------------------------------------------------
(* SpecAsync: the user does not wait for a file read or a detection to     *)
(* finish before the next click.                                           *)

\* Nothing, or a background image, two locked limb lengths and a locked joint.
AsyncPrelude ==
    << <<"imageUpload", 1, 0>>, <<"imageRead", 1, 0>>, <<"imageLoaded", 1, 0>>,
       <<"toggleConstraint", 1, 2>>, <<"toggleConstraint", 2, 3>>,
       <<"toggleLock", 1, 0>> >>

InitAsync ==
    /\ ProgInit
    /\ \E script \in {<<>>, AsyncPrelude} :
           ObserveInit(script, MaxOps + 1, MaxMoves, FALSE, FALSE)

NextAsync ==
    \/ Undo
    \/ Redo
    \/ \E c \in ConstraintInputs : handleToggleConstraint(c[1], c[2])
    \/ \E id \in ToggleIds : handleToggleVisibility(id)
    \/ \E id \in ToggleIds : handleToggleLock(id)
    \/ \E id \in ToggleIds : handleToggleAnchor(id)
    \/ \E f \in 1 .. Len(Files) : ImportJson(f)
    \/ \E n \in 1 .. 2 : ImportLoaded(n)
    \/ \E i \in 1 .. Len(ImageSizes) : ImageUpload(i)
    \/ \E n \in 1 .. 2 : ImageRead(n)
    \/ \E n \in 1 .. 2 : ImageLoaded(n)
    \/ AutoDetect
    \/ \E r \in 1 .. Len(DetectResults) : DetectDone(r)

SpecAsync == InitAsync /\ [][NextAsync]_vars

----------------------------------------------------------------------------
(* SpecHistory: up to MaxPast recorded mutations, then undo, then redo.    *)

HistoryMousePositions == {<<150, 200>>}

InitHistory ==
    /\ ProgInit
    /\ ObserveInit(<<>>, 3 * MaxPast, MaxMoves, TRUE, TRUE)

NextHistory ==
    \/ Undo
    \/ Redo
    \/ \E c \in ConstraintInputs : handleToggleConstraint(c[1], c[2])
    \/ \E id \in ToggleIds : handleToggleVisibility(id)
    \/ handleFlipHorizontal
    \/ \E id \in DragIds : MouseDown(id)
    \/ \E m \in HistoryMousePositions : MouseMoveJoint(m[1], m[2])
    \/ MouseUp

SpecHistory == InitHistory /\ [][NextHistory]_vars

----------------------------------------------------------------------------
(* SpecVis: visibility toggles of every joint, on the initial pose and on  *)
(* a pose with a locked joint, an anchored joint and a locked limb.        *)

VisPrelude ==
    << <<"toggleConstraint", 1, 2>>, <<"toggleLock", 1, 0>>, <<"toggleAnchor", 3, 0>> >>

InitVis ==
    /\ ProgInit
    /\ \E script \in {<<>>, VisPrelude} :
           ObserveInit(script, MaxToggles, MaxMoves, TRUE, FALSE)

NextVis ==
    \/ \E id \in Ids : handleToggleVisibility(id)
    \/ \E c \in ConstraintInputs : handleToggleConstraint(c[1], c[2])
    \/ \E id \in ToggleIds : handleToggleLock(id)
    \/ \E id \in ToggleIds : handleToggleAnchor(id)

SpecVis == InitVis /\ [][NextVis]_vars

----------------------------------------------------------------------------
(* SpecDrag: one joint drag of RShoulder, RElbow or RWrist in either       *)
(* locked-joint mode, with no, one or two locked limbs, to mouse targets   *)
(* on a grid (some beyond the canvas) and onto RShoulder and RElbow.       *)

DragJoints == {2, 3, 4}

DragPreludes ==
    LET limbs == {<<>>, << <<"toggleConstraint", 2, 3>> >>,
                  << <<"toggleConstraint", 2, 3>>, <<"toggleConstraint", 3, 4>> >>}
        modes == {<<>>, << <<"setLockedJointMode", 1, 0>> >>}
    IN {m \o l : m \in modes, l \in limbs}

DragTargets ==
    {<<GridStep * i, GridStep * j>> : i, j \in 0 .. GridMax}
      \cup {<<generateFittedKeypoints(512, 512)[id].x,
              generateFittedKeypoints(512, 512)[id].y>> : id \in {2, 3}}

InitDrag ==
    /\ ProgInit
    /\ \E script \in DragPreludes : ObserveInit(script, 1, MaxMoves, TRUE, FALSE)

NextDrag ==
    \/ \E m \in {"translate", "rotate"} : setLockedJointMode(m)
    \/ \E c \in {<<2, 3>>, <<3, 4>>} : handleToggleConstraint(c[1], c[2])
    \/ \E id \in DragJoints : MouseDown(id)
    \/ \E t \in DragTargets : MouseMoveJoint(t[1], t[2])
    \/ MouseUp

SpecDrag == InitDrag /\ [][NextDrag]_vars

----------------------------------------------------------------------------
(* SpecTransform: scale and rotate/width gestures, and slider events       *)
(* outside a gesture, on poses with and without anchored, hidden and       *)
(* length-locked joints.                                                   *)

TransformPrelude ==
    << <<"toggleConstraint", 1, 2>>, <<"toggleConstraint", 2, 3>>,
       <<"toggleAnchor", 3, 0>> >>

\* Two anchored joints, one of them hidden with its forearm.
AnchorPrelude ==
    << <<"toggleAnchor", 1, 0>>, <<"toggleAnchor", 3, 0>>,
       <<"toggleVisibility", 3, 0>> >>

TransformScaleValues == {100, 150}
TransformSpinValues == {-45}
TransformWidthValues == {50}

InitTransform ==
    /\ ProgInit
    /\ \E script \in {<<>>, TransformPrelude, AnchorPrelude} :
           ObserveInit(script, MaxOps, MaxMoves, TRUE, FALSE)

NextTransform ==
    \/ \E c \in ConstraintInputs : handleToggleConstraint(c[1], c[2])
    \/ \E id \in ToggleIds : handleToggleAnchor(id)
    \/ \E id \in ToggleIds : handleToggleVisibility(id)
    \/ handleToggleAllVisibility
    \/ ScalePointerDown
    \/ \E v \in TransformScaleValues : ScaleChange(v)
    \/ ScalePointerUp
    \/ \E t \in {"spin", "width"} : TransformPointerDown(t)
    \/ \E v \in TransformSpinValues : SpinChange(v)
    \/ \E v \in TransformWidthValues : WidthChange(v)
    \/ TransformPointerUp

SpecTransform == InitTransform /\ [][NextTransform]_vars

----------------------------------------------------------------------------
(* SpecMirror: flips and mirrors of poses that are not symmetric, with     *)
(* Neck, Nose and the canvas centre at three different x, and with Neck    *)
(* hidden, or every joint hidden.                                          *)

MirrorDragged(id, x, y) ==
    << <<"mouseDown", id, 0>>, <<"mouseMoveJoint", x, y>>, <<"mouseUp", 0, 0>> >>

MirrorTargets == [j \in {0, 1, 2} |-> << <<280, 60>>, <<300, 120>>, <<150, 200>> >>[j + 1]]

MirrorPreludes ==
    LET shoulder == MirrorDragged(2, MirrorTargets[2][1], MirrorTargets[2][2])
        axes == MirrorDragged(1, MirrorTargets[1][1], MirrorTargets[1][2])
                  \o MirrorDragged(0, MirrorTargets[0][1], MirrorTargets[0][2])
                  \o shoulder
    IN {shoulder,
        axes,
        axes \o << <<"toggleVisibility", 1, 0>>, <<"toggleVisibility", 0, 0>> >>,
        axes \o << <<"toggleVisibility", 1, 0>> >>}

InitMirror ==
    /\ ProgInit
    /\ \E script \in MirrorPreludes : ObserveInit(script, MaxOps, 1, TRUE, FALSE)

NextMirror ==
    \/ handleFlipHorizontal
    \/ handleFlipVertical
    \/ handleMirrorLeftToRight
    \/ handleMirrorRightToLeft
    \/ \E id \in {0, 1} : handleToggleVisibility(id)
    \/ \E id \in DOMAIN MirrorTargets : MouseDown(id)
    \/ \E id \in DOMAIN MirrorTargets : MouseMoveJoint(MirrorTargets[id][1], MirrorTargets[id][2])
    \/ MouseUp

SpecMirror == InitMirror /\ [][NextMirror]_vars

----------------------------------------------------------------------------
(* SpecConstraint: length locks toggled in both argument orders, on the    *)
(* default pose and with RElbow dragged onto RShoulder; RElbow locked and  *)
(* unlocked, and pressed while locked.                                     *)

\* Where RElbow is dropped: on RShoulder, or somewhere else.
ConstraintTargets ==
    {<<generateFittedKeypoints(512, 512)[2].x, generateFittedKeypoints(512, 512)[2].y>>,
     <<150, 200>>}

ConstraintPreludes ==
    {<<>>} \cup
    {<< <<"mouseDown", 3, 0>>, <<"mouseMoveJoint", t[1], t[2]>>, <<"mouseUp", 0, 0>> >> :
        t \in ConstraintTargets}

ConstraintPairs == {<<2, 3>>, <<3, 2>>, <<3, 4>>}

InitConstraint ==
    /\ ProgInit
    /\ \E script \in ConstraintPreludes :
           ObserveInit(script, MaxToggles + 1, 1, TRUE, FALSE)

NextConstraint ==
    \/ \E c \in ConstraintPairs : handleToggleConstraint(c[1], c[2])
    \/ handleToggleLock(3)
    \/ MouseDown(3)
    \/ MouseDownLocked(3)
    \/ ShakeTimeout
    \/ \E t \in ConstraintTargets : MouseMoveJoint(t[1], t[2])
    \/ MouseUp

SpecConstraint == InitConstraint /\ [][NextConstraint]_vars

----------------------------------------------------------------------------
(* SpecImport: JSON imports of every kind of file, one at a time, into the *)
(* default pose and into a pose with locked limb lengths and a locked      *)
(* joint, with undo.                                                       *)

ImportPrelude ==
    << <<"toggleConstraint", 1, 2>>, <<"toggleConstraint", 2, 3>>,
       <<"toggleLock", 1, 0>> >>

InitImport ==
    /\ ProgInit
    /\ \E script \in {<<>>, ImportPrelude} :
           ObserveInit(script, MaxOps, MaxMoves, TRUE, FALSE)

NextImport ==
    \/ Undo
    \/ \E c \in ConstraintInputs : handleToggleConstraint(c[1], c[2])
    \/ \E id \in ToggleIds : handleToggleLock(id)
    \/ \E f \in 1 .. Len(Files) : ImportJson(f)
    \/ ImportLoaded(1)

SpecImport == InitImport /\ [][NextImport]_vars

----------------------------------------------------------------------------
(* SpecConsistency: length locks on a pose that is not symmetric, then the *)
(* operations that are said to keep them consistent: lock toggles,         *)
(* translate-mode joint drags, skeleton drags, flips, mirrors, scale and   *)
(* rotate/width gestures, undo and redo.                                   *)

ConsistencyPrelude ==
    << <<"mouseDown", 2, 0>>, <<"mouseMoveJoint", 150, 200>>, <<"mouseUp", 0, 0>>,
       <<"toggleConstraint", 1, 2>>, <<"toggleConstraint", 2, 3>> >>

InitConsistency ==
    /\ ProgInit
    /\ \E script \in {<<>>, ConsistencyPrelude} :
           ObserveInit(script, MaxOps, MaxMoves, TRUE, FALSE)

NextConsistency ==
    \/ Undo
    \/ Redo
    \/ \E c \in ConstraintInputs : handleToggleConstraint(c[1], c[2])
    \/ handleFlipHorizontal
    \/ handleFlipVertical
    \/ handleMirrorLeftToRight
    \/ handleMirrorRightToLeft
    \/ \E id \in DragIds : MouseDown(id)
    \/ LimbMouseDown
    \/ \E m \in MousePositions : MouseMoveJoint(m[1], m[2])
    \/ \E m \in SkeletonMoves : MouseMoveSkeleton(m[1], m[2])
    \/ MouseUp
    \/ ScalePointerDown
    \/ \E v \in ScaleValues : ScaleChange(v)
    \/ ScalePointerUp
    \/ \E t \in {"spin", "width"} : TransformPointerDown(t)
    \/ \E v \in SpinValues : SpinChange(v)
    \/ \E v \in WidthValues : WidthChange(v)
    \/ TransformPointerUp

SpecConsistency == InitConsistency /\ [][NextConsistency]_vars

-----------------------------------------------------------------------------
(* SpecEdge: joint drags of RElbow and RWrist next to the left edge of the *)
(* canvas, in either locked-joint mode, with the forearm free or locked.   *)

EdgeJoints == {3, 4}

\* RElbow is dragged to 30 units from the left edge; then the forearm is
\* locked, and the locked-joint mode set to rotate.
EdgePreludes ==
    LET near == << <<"mouseDown", 3, 0>>, <<"mouseMoveJoint", 30, 300>>,
                   <<"mouseUp", 0, 0>> >>
        lock == << <<"toggleConstraint", 3, 4>> >>
        rotate == << <<"setLockedJointMode", 1, 0>> >>
    IN {near, near \o lock, near \o rotate, near \o lock \o rotate}

EdgeTargets ==
    {<<GridStep * i, GridStep * j>> : i, j \in 0 .. GridMax}
      \cup {<<30, 300>>, <<10, 300>>, <<-40, 250>>}

InitEdge ==
    /\ ProgInit
    /\ \E script \in EdgePreludes : ObserveInit(script, 1, MaxMoves, TRUE, FALSE)

NextEdge ==
    \/ \E m \in {"translate", "rotate"} : setLockedJointMode(m)
    \/ handleToggleConstraint(3, 4)
    \/ \E id \in EdgeJoints : MouseDown(id)
    \/ \E t \in EdgeTargets : MouseMoveJoint(t[1], t[2])
    \/ MouseUp

SpecEdge == InitEdge /\ [][NextEdge]_vars

-----------------------------------------------------------------------------
(* SpecFlip: flips of a pose that is not symmetric, with a locked limb     *)
(* length, a locked, an anchored and a hidden joint, or with none of them. *)

FlipPrelude ==
    << <<"mouseDown", 2, 0>>, <<"mouseMoveJoint", 150, 200>>, <<"mouseUp", 0, 0>>,
       <<"toggleConstraint", 2, 3>>, <<"toggleLock", 3, 0>>, <<"toggleAnchor", 1, 0>>,
       <<"toggleVisibility", 3, 0>> >>

InitFlip ==
    /\ ProgInit
    /\ \E script \in {<<>>, FlipPrelude} :
           ObserveInit(script, MaxOps, 1, TRUE, FALSE)

NextFlip ==
    \/ handleFlipHorizontal
    \/ handleFlipVertical
    \/ \E c \in ConstraintInputs : handleToggleConstraint(c[1], c[2])
    \/ \E id \in ToggleIds : handleToggleLock(id)
    \/ \E id \in ToggleIds : handleToggleAnchor(id)
    \/ \E id \in ToggleIds : handleToggleVisibility(id)
    \/ \E id \in DragIds : MouseDown(id)
    \/ \E m \in MousePositions : MouseMoveJoint(m[1], m[2])
    \/ MouseUp

SpecFlip == InitFlip /\ [][NextFlip]_vars

-----------------------------------------------------------------------------
(* SpecTransformFn: handleTransform(rotateZ, scaleX) applied, between      *)
(* TransformStart and TransformEnd, to every pair of an angle and a width  *)
(* factor, on poses whose pivot is the bounding-box centre, one anchored   *)
(* joint, or the centroid of two anchored joints.                          *)

TransformAngles == {0, 90, 180, -45}
TransformPercents == {100, 50, 150}

InitTransformFn ==
    /\ ProgInit
    /\ \E script \in {<<>>, TransformPrelude, AnchorPrelude} :
           ObserveInit(script, 1, MaxMoves, TRUE, FALSE)

NextTransformFn ==
    \/ \E c \in ConstraintInputs : handleToggleConstraint(c[1], c[2])
    \/ \E id \in ToggleIds : handleToggleAnchor(id)
    \/ \E id \in ToggleIds : handleToggleVisibility(id)
    \/ \E t \in {"spin", "width"} : TransformPointerDown(t)
    \/ \E a \in TransformAngles, w \in TransformPercents : handleTransform(a, w)
    \/ TransformPointerUp

SpecTransformFn == InitTransformFn /\ [][NextTransformFn]_vars

-----------------------------------------------------------------------------
(* SpecKeys: the constraint toggles the interface offers (every row of the *)
(* sidebar's Lock Distances list, every row of the context menu of Neck,   *)
(* Nose and RElbow), with a joint drag, a width gesture, undo, redo,       *)
(* reset, import and detection.                                            *)

ContextMenuIds == {0, 1, 3}
KeysFiles == {1, 3}

KeysPrelude ==
    << <<"imageUpload", 1, 0>>, <<"imageRead", 1, 0>>, <<"imageLoaded", 1, 0>> >>

InitKeys ==
    /\ ProgInit
    /\ \E script \in {<<>>, KeysPrelude} : ObserveInit(script, MaxOps, 1, TRUE, FALSE)

NextKeys ==
    \/ \E n \in 1 .. Len(LIMB_PAIRS) : LockDistanceClick(n)
    \/ \E id \in ContextMenuIds, n \in 1 .. Len(LIMB_PAIRS) : ContextMenuLimbClick(id, n)
    \/ Undo
    \/ Redo
    \/ handleReset
    \/ \E id \in DragIds : MouseDown(id)
    \/ \E m \in MousePositions : MouseMoveJoint(m[1], m[2])
    \/ MouseUp
    \/ TransformPointerDown("width")
    \/ \E v \in WidthValues : WidthChange(v)
    \/ TransformPointerUp
    \/ \E f \in KeysFiles : ImportJson(f)
    \/ ImportLoaded(1)
    \/ ImageUpload(1)
    \/ ImageRead(1)
    \/ ImageLoaded(1)
    \/ AutoDetect
    \/ \E r \in 1 .. Len(DetectResults) : DetectDone(r)

SpecKeys == InitKeys /\ [][NextKeys]_vars

-----------------------------------------------------------------------------
(* SpecRoundTrip: the pose is exported and the downloaded file imported,   *)
(* with joints hidden, shown again, or dragged (to a corner of the canvas  *)
(* among others) before the export or between export and import.           *)

RoundTripTargets == {<<150, 200>>, <<-20, -20>>}

InitRoundTrip ==
    /\ ProgInit
    /\ \E script \in {<<>>, << <<"toggleVisibility", 3, 0>> >>} :
           ObserveInit(script, MaxOps + 1, 1, TRUE, FALSE)

NextRoundTrip ==
    \/ handleExportJson
    \/ ImportExported
    \/ ImportLoaded(1)
    \/ \E id \in ToggleIds : handleToggleVisibility(id)
    \/ \E id \in DragIds : MouseDown(id)
    \/ \E t \in RoundTripTargets : MouseMoveJoint(t[1], t[2])
    \/ MouseUp

SpecRoundTrip == InitRoundTrip /\ [][NextRoundTrip]_vars

-----------------------------------------------------------------------------
(* SpecDetect: auto-detect with and without a background image, between    *)
(* constraint and lock toggles, undo and redo.  The promise of detectPose  *)
(* settles (detectPose returns the pose, too few points, or null, also     *)
(* when the request fails), and the continuation of handleAutoDetect then  *)
(* runs: weak fairness of DetectDone.                                      *)

InitDetect ==
    /\ ProgInit
    /\ \E script \in {<<>>, KeysPrelude} :
           ObserveInit(script, MaxOps, MaxMoves, TRUE, FALSE)

NextDetect ==
    \/ ImageUpload(1)
    \/ ImageRead(1)
    \/ ImageLoaded(1)
    \/ AutoDetect
    \/ AutoDetectWithoutImage
    \/ \E r \in 1 .. Len(DetectResults) : DetectDone(r)
    \/ \E c \in ConstraintInputs : handleToggleConstraint(c[1], c[2])
    \/ \E id \in ToggleIds : handleToggleLock(id)
    \/ Undo
    \/ Redo

SpecDetect ==
    /\ InitDetect
    /\ [][NextDetect]_vars
    /\ WF_vars(\E r \in 1 .. Len(DetectResults) : DetectDone(r))

----------------------------------------------------------------------------
(* Properties                                                              *)

\* The nodes reachable from the set S along the directed edges E.
RECURSIVE Reach(_, _)
Reach(E, S) ==
    LET T == S \cup {e[2] : e \in {f \in E : f[1] \in S}}
    IN IF T = S THEN S ELSE Reach(E, T)

\* parent -> child edges of the static hierarchy
HierarchyEdges ==
    UNION {{<<p, POSE_HIERARCHY(p)[n]>> : n \in 1 .. Len(POSE_HIERARCHY(p))} : p \in Ids}

\* both directions of every constraint of cons
ConstraintEdges(cons) == DOMAIN cons \cup {<<k[2], k[1]>> : k \in DOMAIN cons}

Unchanged == ProgState = prev

NoOpResult(hist, kps, cons) == [history |-> hist, keypoints |-> kps, constraints |-> cons]

\* C1: from S0, n >= 1 recorded mutations lead to S1 .. Sn; n consecutive
\* undo() calls then make the current (keypoints, constraints) exactly S0,
\* and n consecutive redo() calls after that make it exactly Sn.
C1_HistoryRoundTrip ==
    LET n == Len(trail.states) - 1
    IN /\ (trail.phase = "undo" /\ trail.undone = n) => Current = trail.states[1]
       /\ (trail.phase = "redo" /\ trail.redone = n) => Current = trail.states[n + 1]

\* Three mutations, one of them a drag, undone and redone; S0, S1, S2, S3 differ.
C1_Witness ==
    /\ trail.phase = "redo" /\ trail.redone = 3 /\ Len(trail.states) = 4
    /\ Cardinality({trail.states[i] : i \in 1 .. 4}) = 4
    /\ trail.states[3].keypoints[2].x # trail.states[4].keypoints[2].x

\* The events whose handler calls recordHistory().
RecordingEvent ==
    \/ ev.name \in {"toggleConstraint", "toggleVisibility", "toggleLock", "toggleAnchor",
                    "toggleAllLock", "toggleAllVisibility", "reset", "flipHorizontal",
                    "flipVertical", "mirrorLeftToRight", "mirrorRightToLeft",
                    "mouseDown", "limbMouseDown", "scaleStart", "transformStart",
                    "autoDetect"}
    \/ ev.name = "imageUpload" /\ ~prev.app.keepPose
    \/ ev.name = "importLoaded" /\ ImportAccepted(prev.pending.import[ev.a].file)

\* C2: record() appends the current (pre-mutation) (keypoints, constraints)
\* snapshot to the end of past and empties future; after a recorded mutation,
\* also one that follows an undo, future is empty and redo() changes nothing.
C2_RecordAppendsCurrent ==
    RecordingEvent =>
        /\ history.past = Append(prev.history.past,
                                 Snapshot(prev.keypoints, prev.constraints))
        /\ history.future = <<>>
        /\ redo(history, keypoints, constraints)
             = NoOpResult(history, keypoints, constraints)

\* C3: undo() with an empty past and redo() with an empty future change
\* nothing: keypoints, constraints, past, future and the rest of the program
\* state are as before.
C3_BoundaryNoOp ==
    /\ (ev.name = "undo" /\ prev.history.past = <<>>) => Unchanged
    /\ (ev.name = "redo" /\ prev.history.future = <<>>) => Unchanged

\* A redo with nothing to redo while there is something to undo.
C3_Witness ==
    ev.name = "redo" /\ prev.history.future = <<>> /\ prev.history.past # <<>>

MutatingOperations ==
    {"toggleConstraint", "toggleVisibility", "toggleLock", "toggleAnchor",
     "toggleAllLock", "toggleAllVisibility", "reset", "flipHorizontal", "flipVertical",
     "mirrorLeftToRight", "mirrorRightToLeft", "import", "detect", "jointDrag",
     "limbDrag", "scale", "transform"}

\* C4: one undo() immediately after a mutating operation (a toggle, reset,
\* flip, mirror, valid JSON import, auto-detect, complete joint or limb drag,
\* complete scale gesture, complete rotate/width gesture) restores exactly the
\* (keypoints, constraints) that were current before the operation began.
C4_UndoRestoresPreOperation ==
    (op.stage = "undone" /\ op.kind \in MutatingOperations) => Current = op.pre[1]

\* A detection that replaced the pose and cleared the constraints, undone.
C4_Witness ==
    /\ op.stage = "undone" /\ op.kind = "detect"
    /\ prev.keypoints # keypoints
    /\ prev.constraints # constraints

Gestures == {"jointDrag", "limbDrag", "scale", "transform"}

UpdateEvents == {"mouseMoveJoint", "mouseMoveSkeleton", "scale", "spin", "width"}

\* C5: a gesture of one Start event, any number of move/Update events and one
\* End event appends exactly one snapshot to past; a move/Update event leaves
\* past and future unchanged.
C5_GestureIsOneUndoStep ==
    /\ (op.kind \in Gestures /\ op.stage \in {"active", "done"}) =>
           history = [past |-> Append(op.hist0[1].past, op.pre[1]), future |-> <<>>]
    /\ ev.name \in UpdateEvents => history = prev.history

\* A rotate/width gesture of two updates that moved the pose, ended.
C5_Witness ==
    /\ op.kind = "transform" /\ op.stage = "done" /\ env.moves = 0
    /\ keypoints # op.pre[1].keypoints
    /\ Len(history.past) = Len(op.hist0[1].past) + 1

\* The mouse position handed to onKeypointMove: clamped to the canvas.
DragTarget == <<Clamp(ev.a, prev.app.size.width), Clamp(ev.b, prev.app.size.height)>>

Dragged == prev.editor.draggingId

SquaredDistance(a, b) == (a.x - b.x) * (a.x - b.x) + (a.y - b.y) * (a.y - b.y)

\* C6: a translate-mode drag of joint k to target t moves every joint of k's
\* connected component of the constraint graph by exactly t - position(k),
\* leaves every other joint where it was, and preserves every pairwise
\* distance inside the component.
C6_TranslateMovesComponent ==
    (ev.name = "mouseMoveJoint" /\ prev.app.lockedJointMode = "translate") =>
        LET component == Reach(ConstraintEdges(prev.constraints), {Dragged})
            dx == DragTarget[1] - prev.keypoints[Dragged].x
            dy == DragTarget[2] - prev.keypoints[Dragged].y
        IN /\ \A i \in component :
                  keypoints[i] = [prev.keypoints[i] EXCEPT !.x = @ + dx, !.y = @ + dy]
           /\ \A i \in Ids \ component : keypoints[i] = prev.keypoints[i]
           /\ \A i, j \in component :
                  SquaredDistance(keypoints[i], keypoints[j])
                    = SquaredDistance(prev.keypoints[i], prev.keypoints[j])

\* RElbow dragged with both arm limbs locked: three joints move, the rest stay.
C6_Witness ==
    /\ ev.name = "mouseMoveJoint" /\ prev.app.lockedJointMode = "translate"
    /\ Dragged = 3
    /\ Reach(ConstraintEdges(prev.constraints), {Dragged}) = {2, 3, 4}
    /\ keypoints[2] # prev.keypoints[2]
    /\ keypoints[4] # prev.keypoints[4]

\* The constraints that touch joint id.
Touching(cons, id) == {k \in DOMAIN cons : k[1] = id \/ k[2] = id}

\* C7: a constraint-resolution drag of a joint with exactly one active
\* constraint, of target distance d to partner j, to a raw target that is not
\* j's position leaves the joint at distance d from j (to within one unit, the
\* resolution of the coordinates).
C7_SingleConstraintKeepsDistance ==
    (/\ ev.name = "mouseMoveJoint"
     /\ prev.app.lockedJointMode # "translate"
     /\ Cardinality(Touching(prev.constraints, Dragged)) = 1) =>
        LET key == CHOOSE k \in Touching(prev.constraints, Dragged) : TRUE
            j == OtherEnd(key, Dragged)
            d == prev.constraints[key]
        IN DragTarget # <<prev.keypoints[j].x, prev.keypoints[j].y>> =>
               /\ keypoints[j] = prev.keypoints[j]
               /\ Abs(Distance(keypoints[Dragged].x, keypoints[Dragged].y,
                               keypoints[j].x, keypoints[j].y) - d) <= 1

\* RWrist pulled to a target more than 100 units off its circle around RElbow.
C7_Witness ==
    /\ ev.name = "mouseMoveJoint" /\ prev.app.lockedJointMode # "translate"
    /\ Dragged = 4
    /\ Touching(prev.constraints, Dragged) = {<<3, 4>>}
    /\ Abs(Distance(DragTarget[1], DragTarget[2], prev.keypoints[3].x,
                    prev.keypoints[3].y) - prev.constraints[<<3, 4>>]) > 100
    /\ <<keypoints[4].x, keypoints[4].y>> # DragTarget

\* C8: toggling a visible joint j sets visible = false on j and on every joint
\* reachable from j in the parent -> child hierarchy, and on no other joint;
\* coordinates, lock flags, anchor flags and constraints are unchanged.
C8_HideCascade ==
    (ev.name = "toggleVisibility" /\ prev.keypoints[ev.a].visible) =>
        LET hidden == Reach(HierarchyEdges, {ev.a})
        IN /\ \A i \in hidden : keypoints[i] = [prev.keypoints[i] EXCEPT !.visible = FALSE]
           /\ \A i \in Ids \ hidden : keypoints[i] = prev.keypoints[i]
           /\ constraints = prev.constraints

\* RShoulder hidden while RElbow is locked-limb partner, anchored and visible.
C8_Witness ==
    /\ ev.name = "toggleVisibility" /\ ev.a = 2
    /\ prev.keypoints[2].visible /\ prev.keypoints[3].visible /\ prev.keypoints[4].visible
    /\ prev.keypoints[3].anchored
    /\ constraints # NoConstraints
    /\ {i \in Ids : ~keypoints[i].visible} = {2, 3, 4}

AllVisible(kps) == \A i \in Ids : kps[i].visible

\* C9 as stated: hiding Neck (joint 1) in an all-visible pose hides exactly
\* {1,0,2,5,8,11,14,15,16,17} and leaves {3,4,6,7,9,10,12,13} visible;
\* re-showing Neck afterwards does not re-show any descendant.
C9_NeckHidesListedJoints ==
    /\ (ev.name = "toggleVisibility" /\ ev.a = 1 /\ AllVisible(prev.keypoints)) =>
           {i \in Ids : ~keypoints[i].visible} = {1, 0, 2, 5, 8, 11, 14, 15, 16, 17}
    /\ (ev.name = "toggleVisibility" /\ ev.a = 1 /\ ~prev.keypoints[1].visible) =>
           \A i \in Ids \ {1} : keypoints[i].visible = prev.keypoints[i].visible

\* C9, amended: hiding Neck (joint 1) in an all-visible pose hides all 18
\* joints, the limb joints {3,4,6,7,9,10,12,13} included, because every joint
\* descends from Neck; re-showing Neck afterwards shows Neck and nothing else.
C9_NeckHidesAllJoints ==
    /\ (ev.name = "toggleVisibility" /\ ev.a = 1 /\ AllVisible(prev.keypoints)) =>
           \A i \in Ids : ~keypoints[i].visible
    /\ (ev.name = "toggleVisibility" /\ ev.a = 1 /\ ~prev.keypoints[1].visible) =>
           /\ keypoints[1].visible
           /\ \A i \in Ids \ {1} : keypoints[i].visible = prev.keypoints[i].visible

\* Neck re-shown right after hiding it hid everything.
C9_Witness ==
    /\ ev.name = "toggleVisibility" /\ ev.a = 1
    /\ \A i \in Ids : ~prev.keypoints[i].visible
    /\ {i \in Ids : keypoints[i].visible} = {1}

\* C10: toggling a hidden joint sets visible = true on that joint only; the
\* visibility of every other joint, descendants hidden by an earlier cascade
\* included, and everything else is unchanged.
C10_ShowDoesNotCascade ==
    (ev.name = "toggleVisibility" /\ ~prev.keypoints[ev.a].visible) =>
        /\ keypoints[ev.a] = [prev.keypoints[ev.a] EXCEPT !.visible = TRUE]
        /\ \A i \in Ids \ {ev.a} : keypoints[i] = prev.keypoints[i]
        /\ constraints = prev.constraints

\* RHip re-shown while RKnee and RAnkle, hidden with it, stay hidden.
C10_Witness ==
    /\ ev.name = "toggleVisibility" /\ ev.a = 8
    /\ ~prev.keypoints[8].visible /\ ~prev.keypoints[9].visible
    /\ {i \in Ids : ~keypoints[i].visible} = {9, 10}

\* v is a / b rounded to a whole unit (b > 0): |v - a / b| <= 1/2.
Nearest(v, a, b) == Abs(2 * (v * b - a)) <= b

\* The sum of a coordinate over the joints of S.
RECURSIVE CoordSum(_, _, _)
CoordSum(kps, S, coord) ==
    IF S = {} THEN 0
    ELSE LET i == SetMax(S)
         IN (IF coord = "x" THEN kps[i].x ELSE kps[i].y) + CoordSum(kps, S \ {i}, coord)

\* The pivot the specification prescribes, as the fractions (x / den, y / den):
\* the centroid of the anchored joints, else the centre of the bounding box of
\* the visible joints, else the canvas centre.
ExpectedPivot(kps, size) ==
    LET anchored == {i \in Ids : kps[i].anchored}
        visible == {i \in Ids : kps[i].visible}
        left == CHOOSE i \in visible : \A j \in visible : kps[i].x <= kps[j].x
        right == CHOOSE i \in visible : \A j \in visible : kps[i].x >= kps[j].x
        top == CHOOSE i \in visible : \A j \in visible : kps[i].y <= kps[j].y
        bottom == CHOOSE i \in visible : \A j \in visible : kps[i].y >= kps[j].y
    IN IF anchored # {}
       THEN [x |-> CoordSum(kps, anchored, "x"), y |-> CoordSum(kps, anchored, "y"),
             den |-> Cardinality(anchored)]
       ELSE IF visible # {}
       THEN [x |-> kps[left].x + kps[right].x, y |-> kps[top].y + kps[bottom].y,
             den |-> 2]
       ELSE [x |-> size.width, y |-> size.height, den |-> 2]

\* An Update event of the scale gesture in progress.
ScaleUpdate == ev.name = "scale" /\ op.kind = "scale" /\ op.stage = "active"

\* An Update event of the rotate/width gesture in progress.
TransformUpdate ==
    ev.name \in {"spin", "width"} /\ op.kind = "transform" /\ op.stage = "active"

\* C11: Scale(f), f = ev.a / ev.b, during a scale gesture places every joint
\* at pivot + f * (base position - pivot), the pivot being that of the base
\* snapshot (rounded to the coordinate unit), sets every constraint's distance
\* to f times its base distance with the same keys, and Scale(1) reproduces
\* the base keypoints and constraints.
C11_ScaleAboutPivot ==
    ScaleUpdate =>
        LET base == op.pre[1]
            p == ExpectedPivot(base.keypoints, prev.app.size)
        IN /\ \A i \in Ids :
                  /\ Nearest(keypoints[i].x,
                             p.x * ev.b + (base.keypoints[i].x * p.den - p.x) * ev.a,
                             p.den * ev.b)
                  /\ Nearest(keypoints[i].y,
                             p.y * ev.b + (base.keypoints[i].y * p.den - p.y) * ev.a,
                             p.den * ev.b)
                  /\ keypoints[i] = [base.keypoints[i] EXCEPT !.x = keypoints[i].x,
                                                              !.y = keypoints[i].y]
           /\ DOMAIN constraints = DOMAIN base.constraints
           /\ \A k \in DOMAIN constraints :
                  Nearest(constraints[k], base.constraints[k] * ev.a, ev.b)
           /\ ev.a = ev.b => Current = base

\* Scale(1.5) about an anchored joint with two locked limbs: the anchor stays,
\* Neck moves, the lengths grow.
C11_Witness ==
    /\ ScaleUpdate /\ ev.a = 150 /\ ev.b = 100
    /\ op.pre[1].keypoints[3].anchored
    /\ keypoints[3] = op.pre[1].keypoints[3]
    /\ keypoints[1] # op.pre[1].keypoints[1]
    /\ DOMAIN constraints = {<<1, 2>>, <<2, 3>>}
    /\ constraints # op.pre[1].constraints

\* The pose an Update of the gesture in progress computes from the snapshot
\* captured at Start.
ReplayedFromBase ==
    LET base == op.pre[1]
        size == prev.app.size
    IN CASE ev.name = "scale" ->
              Snapshot(scaleKeypoints(base.keypoints, size, ev.a, ev.b),
                       scaleConstraints(base.constraints, ev.a, ev.b))
         [] ev.name = "spin" ->
              Snapshot(transformKeypoints(base.keypoints, size, ev.a - ev.b, 1, 1),
                       base.constraints)
         [] ev.name = "width" ->
              Snapshot(transformKeypoints(base.keypoints, size, 0, ev.a, ev.b),
                       base.constraints)

\* C12: the Updates of a scale or rotate/width gesture are replayable: after
\* any sequence of Updates the keypoints (and for scale the constraints) are
\* the last Update's parameter applied to the base captured at Start, and an
\* Update with the same parameter as an earlier one leaves the same state
\* (the pose is a function of the base and of the last parameter alone).
C12_UpdatesReplayFromBase ==
    (ScaleUpdate \/ TransformUpdate) => Current = ReplayedFromBase

\* A second Update of a scale gesture, back to factor 1 after factor 1.5: the
\* pose is the base again.
C12_Witness ==
    /\ ScaleUpdate /\ ev.a = 100
    /\ prev.sidebar.scaleValue = 150
    /\ prev.keypoints # op.pre[1].keypoints
    /\ prev.constraints # op.pre[1].constraints
    /\ Current = op.pre[1]

\* C13: a Scale or Transform update with no base captured changes neither the
\* keypoints, nor the constraints, nor the past, nor the future.
C13_UpdateWithoutBaseIsNoOp ==
    (ev.name \in {"scale", "spin", "width"} /\ prev.transformBase = <<>>) =>
        /\ keypoints = prev.keypoints
        /\ constraints = prev.constraints
        /\ history = prev.history

\* The spin slider moved with no gesture started, after a recorded operation.
C13_Witness ==
    /\ ev.name = "spin" /\ ev.a - ev.b # 0
    /\ prev.transformBase = <<>>
    /\ sidebar.spinValue # prev.sidebar.spinValue
    /\ history.past # <<>>

\* d is the Euclidean distance between a and b to the whole unit:
\* d - 1/2 <= sqrt(sq) <= d + 1/2.
IsDistance(d, a, b) ==
    /\ d >= 0
    /\ d > 0 => (2 * d - 1) * (2 * d - 1) <= 4 * SquaredDistance(a, b)
    /\ 4 * SquaredDistance(a, b) <= (2 * d + 1) * (2 * d + 1)

\* C14: TransformEnd sets every existing constraint's distance to the current
\* Euclidean distance between its two joints (to the whole unit), keeps the
\* constraint key set and the keypoints, and clears the base.
C14_TransformEndRecomputesDistances ==
    ev.name = "transformEnd" =>
        /\ DOMAIN constraints = DOMAIN prev.constraints
        /\ keypoints = prev.keypoints
        /\ transformBase = <<>>
        /\ \A k \in DOMAIN constraints :
               IsDistance(constraints[k], keypoints[k[1]], keypoints[k[2]])

\* The end of a width gesture that squeezed two locked limbs: both stored
\* distances change.
C14_Witness ==
    /\ ev.name = "transformEnd" /\ op.kind = "transform" /\ op.stage = "done"
    /\ DOMAIN constraints = {<<1, 2>>, <<2, 3>>}
    /\ \A k \in DOMAIN constraints : constraints[k] # prev.constraints[k]
    /\ keypoints # op.pre[1].keypoints
    /\ prev.transformBase # <<>>

\* C18: the pivot of a pose is the centroid of its anchored joints, visible or
\* not, if any joint is anchored; else the centre of the bounding box of the
\* visible joints; else the canvas centre.
C18_PivotRule ==
    LET p == getPivotPoint(keypoints, app.size)
        q == ExpectedPivot(keypoints, app.size)
    IN /\ p.den > 0 /\ q.den > 0
       /\ p.x * q.den = q.x * p.den
       /\ p.y * q.den = q.y * p.den

\* A gesture in progress on a pose with two anchored joints, one of them
\* hidden, whose centroid is neither anchored joint nor the pose centre.
C18_Witness ==
    LET anchored == {i \in Ids : keypoints[i].anchored}
        p == getPivotPoint(op.pre[1].keypoints, app.size)
    IN /\ op.stage = "active" /\ op.kind \in {"scale", "transform"}
       /\ ev.name \in {"scale", "spin", "width"}
       /\ Cardinality(anchored) = 2
       /\ \E i \in anchored : ~keypoints[i].visible
       /\ \E i \in anchored : keypoints[i].visible
       /\ p.den = 2
       /\ keypoints # op.pre[1].keypoints

\* The (x, y) of every joint.
Positions(kps) == [i \in Ids |-> <<kps[i].x, kps[i].y>>]

\* C15: flipping horizontally twice in a row returns every joint to its
\* original (x, y), whatever the visibility pattern, none visible included.
\* (prev is the state before the first of the two flips.)
C15_FlipTwiceIsIdentity ==
    [][ (ev.name = "flipHorizontal" /\ ev'.name = "flipHorizontal") =>
            Positions(keypoints') = Positions(prev.keypoints) ]_vars

\* The second of two horizontal flips in a row: the pose before it is the
\* reflection of the present one about the centre of the visible joints'
\* bounding box and differs from it; the pose two records back is the present
\* one; some joints are hidden and the pose is not symmetric.
C15_Witness ==
    LET n == Len(history.past)
        visible == {i \in Ids : keypoints[i].visible}
        c2 == getPoseCenter(keypoints)[1].x
    IN /\ ev.name = "flipHorizontal"
       /\ n >= 2
       /\ visible # {} /\ visible # Ids
       /\ \A i \in Ids : prev.keypoints[i].x = c2 - keypoints[i].x
       /\ Positions(prev.keypoints) # Positions(keypoints)
       /\ history.past[n] = Snapshot(prev.keypoints, prev.constraints)
       /\ history.past[n - 1].keypoints = keypoints

\* The right-side and the left-side joints of the mirror pairs.
RightSide == {2, 3, 4, 8, 9, 10, 14, 16}
LeftSide == {5, 6, 7, 11, 12, 13, 15, 17}
Partner(i) ==
    CASE i = 2 -> 5 [] i = 3 -> 6 [] i = 4 -> 7 [] i = 8 -> 11 [] i = 9 -> 12
      [] i = 10 -> 13 [] i = 14 -> 15 [] i = 16 -> 17
      [] i = 5 -> 2 [] i = 6 -> 3 [] i = 7 -> 4 [] i = 11 -> 8 [] i = 12 -> 9
      [] i = 13 -> 10 [] i = 15 -> 14 [] i = 17 -> 16

\* Twice the mirror axis the specification prescribes for a pose.
ExpectedAxis2(kps, size) ==
    IF kps[1].visible THEN 2 * kps[1].x
    ELSE IF kps[0].visible THEN 2 * kps[0].x
    ELSE size.width

\* The pose after mirroring the side src of the pose before onto the side dst.
MirroredOnto(before, after, size, dst) ==
    \A i \in Ids :
        after[i] = IF i \in dst
                   THEN [before[i] EXCEPT
                           !.x = ExpectedAxis2(before, size) - before[Partner(i)].x,
                           !.y = before[Partner(i)].y,
                           !.visible = before[Partner(i)].visible]
                   ELSE before[i]

\* C16 as stated: mirror left->right followed immediately by mirror
\* right->left gives every right-side joint the (x, y) it had before the first
\* mirror.
C16_MirrorBackRestoresRight ==
    [][ (ev.name = "mirrorLeftToRight" /\ ev'.name = "mirrorRightToLeft") =>
            \A r \in RightSide :
                Positions(keypoints')[r] = Positions(prev.keypoints)[r] ]_vars

\* C16, amended: mirror left->right followed immediately by mirror
\* right->left leaves every left-side joint, Neck and Nose with the (x, y)
\* they had before the first mirror, and every right-side joint where the
\* first mirror put it: at the reflection of its left partner's pre-mirror
\* position; the second mirror moves no joint.
C16_MirrorBackKeepsReflection ==
    [][ (ev.name = "mirrorLeftToRight" /\ ev'.name = "mirrorRightToLeft") =>
            /\ Positions(keypoints') = Positions(keypoints)
            /\ \A i \in Ids \ RightSide :
                   Positions(keypoints')[i] = Positions(prev.keypoints)[i]
            /\ \A r \in RightSide :
                   Positions(keypoints')[r] =
                       <<ExpectedAxis2(prev.keypoints, prev.app.size)
                           - prev.keypoints[Partner(r)].x,
                         prev.keypoints[Partner(r)].y>> ]_vars

\* Mirror right->left right after mirror left->right of a pose whose right
\* shoulder was not the reflection of the left one: the pose two records back
\* has the present left side and another right shoulder.
C16_Witness ==
    LET n == Len(history.past)
    IN /\ ev.name = "mirrorRightToLeft"
       /\ n >= 2
       /\ history.past[n].keypoints = prev.keypoints
       /\ keypoints = prev.keypoints
       /\ MirroredOnto(history.past[n - 1].keypoints, keypoints, app.size, RightSide)
       /\ Positions(history.past[n - 1].keypoints)[2] # Positions(keypoints)[2]

\* C17: mirror left->right sets every right-side joint r with left partner l
\* to x = 2 * axis - l.x, y = l.y, visible = l.visible, the axis being Neck.x
\* if Neck is visible, else Nose.x if Nose is visible, else half the canvas
\* width, and leaves the left-side joints, Neck and Nose untouched; mirror
\* right->left is the same with the sides swapped.
C17_MirrorCopiesReflectedSide ==
    /\ ev.name = "mirrorLeftToRight" =>
           MirroredOnto(prev.keypoints, keypoints, prev.app.size, RightSide)
    /\ ev.name = "mirrorRightToLeft" =>
           MirroredOnto(prev.keypoints, keypoints, prev.app.size, LeftSide)

\* Mirror left->right with Neck hidden and Nose visible, Neck, Nose and the
\* canvas centre at three different x: the right side moves.
C17_Witness ==
    /\ ev.name = "mirrorLeftToRight"
    /\ ~prev.keypoints[1].visible /\ prev.keypoints[0].visible
    /\ prev.keypoints[0].x # prev.keypoints[1].x
    /\ 2 * prev.keypoints[0].x # prev.app.size.width
    /\ 2 * prev.keypoints[1].x # prev.app.size.width
    /\ \A r \in RightSide : Positions(keypoints)[r] # Positions(prev.keypoints)[r]

\* The constraint toggle of the pair of the last event did what C19 says.
ToggledPair ==
    LET key == <<Min2(ev.a, ev.b), Max2(ev.a, ev.b)>>
        before == prev.constraints
    IN /\ keypoints = prev.keypoints
       /\ \A k \in (DOMAIN before) \ {key} :
              k \in DOMAIN constraints /\ constraints[k] = before[k]
       /\ IF key \in DOMAIN before
          THEN DOMAIN constraints = (DOMAIN before) \ {key}
          ELSE /\ DOMAIN constraints = (DOMAIN before) \cup {key}
               /\ IsDistance(constraints[key], keypoints[ev.a], keypoints[ev.b])

\* C19: a constraint toggle on a pair of distinct joints, whatever their
\* positions (coincident joints included), stores the current Euclidean
\* distance under the ascending key when the pair has no constraint, deletes
\* the constraint when it has one, in either argument order, and changes no
\* other constraint and no keypoint.
C19_ToggleStoresThenDeletes ==
    ev.name = "toggleConstraint" => ToggledPair

\* The same for pairs whose stored distance is not zero.
C19_ToggleOfSeparateJoints ==
    (ev.name = "toggleConstraint"
       /\ \A k \in DOMAIN prev.constraints : prev.constraints[k] # 0) => ToggledPair

\* The second toggle of a pair, in the other argument order, deletes the
\* constraint the first one stored.
C19_SeparateWitness ==
    /\ ev.name = "toggleConstraint" /\ ev.a = 3 /\ ev.b = 2
    /\ <<2, 3>> \in DOMAIN prev.constraints
    /\ <<2, 3>> \notin DOMAIN constraints
    /\ <<3, 4>> \in DOMAIN constraints

\* The second toggle of a pair of coincident joints: the constraint of
\* distance zero is still there.
C19_CoincidentKept ==
    /\ ev.name = "toggleConstraint"
    /\ Positions(keypoints)[2] = Positions(keypoints)[3]
    /\ <<2, 3>> \in DOMAIN prev.constraints
    /\ <<2, 3>> \in DOMAIN constraints
    /\ constraints[<<2, 3>>] = 0

\* C20: a mouse-down on a locked joint starts no drag (draggingId stays
\* null), records no history entry and changes no joint position or
\* constraint; only the shake cue is set.
C20_LockedJointRefusesDrag ==
    ev.name = "mouseDownLocked" =>
        /\ prev.keypoints[ev.a].locked
        /\ editor.draggingId = NoId /\ prev.editor.draggingId = NoId
        /\ history = prev.history
        /\ keypoints = prev.keypoints
        /\ constraints = prev.constraints
        /\ editor = [prev.editor EXCEPT !.shakingId = ev.a]
        /\ [ProgState EXCEPT !.editor = prev.editor] = prev

\* A mouse-down on the locked RElbow of a pose with a past: the cue is on and
\* nothing else moved.
C20_Witness ==
    /\ ev.name = "mouseDownLocked" /\ ev.a = 3
    /\ editor.shakingId = 3 /\ prev.editor.shakingId = NoId
    /\ history.past # <<>>
    /\ editor.draggingId = NoId

\* The file whose read the last event (importLoaded) completed.
LoadedFile == prev.pending.import[ev.a].file

\* The source joint of joint i in a 75-number (BODY_25) array: joint 8
\* (MidHip) is skipped.
SourceJoint(i) == IF i <= 7 THEN i ELSE i + 1

\* C21: importing a 54-number array a sets joint i to x = a[3i], y = a[3i+1],
\* visible = (x # 0 or y # 0); importing a 75-number array does the same
\* reading source joint m[i] (source joints 8 and 19..24 discarded); in both
\* cases all constraints are cleared.
C21_ImportMapping ==
    (ev.name = "importLoaded" /\ ImportAccepted(LoadedFile)
       /\ LoadedFile.kpArray # <<>> /\ Len(LoadedFile.kpArray[1]) \in {54, 75}) =>
        LET a == LoadedFile.kpArray[1]      \* a[k] of the claim is a[k + 1] here
        IN /\ \A i \in Ids :
                  LET s == IF Len(a) = 75 THEN SourceJoint(i) ELSE i
                  IN /\ keypoints[i].x = a[3 * s + 1]
                     /\ keypoints[i].y = a[3 * s + 2]
                     /\ keypoints[i].visible = (a[3 * s + 1] # 0 \/ a[3 * s + 2] # 0)
           /\ constraints = NoConstraints

\* A 75-number import into a pose with two locked limb lengths: RHip comes
\* from source joint 9, RWrist is at (0, 0) and hidden, no constraint is left.
C21_Witness ==
    /\ ev.name = "importLoaded" /\ ImportAccepted(LoadedFile)
    /\ LoadedFile.kpArray # <<>> /\ Len(LoadedFile.kpArray[1]) = 75
    /\ prev.constraints # NoConstraints /\ constraints = NoConstraints
    /\ keypoints[8].x = LoadedFile.kpArray[1][28]
    /\ keypoints[8].x # LoadedFile.kpArray[1][25]
    /\ ~keypoints[4].visible /\ keypoints[3].visible

\* The file is one the specification calls invalid: malformed, without a
\* people entry, without pose_keypoints_2d, or with a keypoint array of a
\* length other than 54 or 75.
InvalidFile(f) ==
    \/ ~f.parses
    \/ f.people # "one"
    \/ f.kpArray = <<>>
    \/ Len(f.kpArray[1]) \notin {54, 75}

\* C22: an import of an invalid file leaves keypoints, constraints, canvas
\* size, past and future exactly as they were.
C22_InvalidImportChangesNothing ==
    (ev.name = "importLoaded" /\ InvalidFile(LoadedFile)) =>
        /\ keypoints = prev.keypoints
        /\ constraints = prev.constraints
        /\ app.size = prev.app.size
        /\ history = prev.history

\* The import of a file with a person but no pose_keypoints_2d: the pose is
\* kept, but a history entry was pushed and the canvas took the file's size.
C22_RejectedAfterRecord ==
    /\ ev.name = "importLoaded" /\ ImportAccepted(LoadedFile)
    /\ LoadedFile.kpArray = <<>>
    /\ keypoints = prev.keypoints /\ constraints = prev.constraints
    /\ Len(history.past) = Len(prev.history.past) + 1
    /\ app.size # prev.app.size

\* The same for the files rejected before anything is written: malformed, no
\* people array, empty people array.
C22_RejectedEarlyChangesNothing ==
    (ev.name = "importLoaded" /\ ~ImportAccepted(LoadedFile)) =>
        [ProgState EXCEPT !.pending = prev.pending] = prev

\* The import of a 6-number array: two joints are overwritten and the locked
\* limb lengths are cleared.
C22_ShortArrayApplied ==
    /\ ev.name = "importLoaded" /\ ImportAccepted(LoadedFile)
    /\ LoadedFile.kpArray # <<>> /\ Len(LoadedFile.kpArray[1]) = 6
    /\ keypoints[0] # prev.keypoints[0] /\ keypoints[2] = prev.keypoints[2]
    /\ prev.constraints # NoConstraints /\ constraints = NoConstraints

\* The last event ended a detection that failed: detectPose resolved to null
\* or to other than 18 points.
DetectionFailed ==
    /\ ev.name = "detectDone" /\ Len(DetectResults[ev.a]) # NumKeypoints
    /\ op.kind = "detect" /\ op.stage = "done"

\* C23: after a failed detection the keypoints and the constraints equal those
\* before the call, so that the history entry recorded before the call is a
\* no-op undo step: the current state is the top of past.
C23_FailedDetectionChangesNothing ==
    DetectionFailed =>
        /\ Current = op.pre[1]
        /\ Current = history.past[Len(history.past)]

\* A failed detection on a pose with locked limb lengths, no other event in
\* between: the keypoints are kept and the constraints are gone.
C23_FailedDetectionClearedConstraints ==
    /\ DetectionFailed
    /\ keypoints = op.pre[1].keypoints
    /\ op.pre[1].constraints # NoConstraints
    /\ constraints = NoConstraints
    /\ history.past[Len(history.past)] = op.pre[1]

\* The keypoints part alone.
C23_FailedDetectionKeepsKeypoints ==
    DetectionFailed => keypoints = op.pre[1].keypoints

\* A scale or a rotate/width gesture is in progress: Start was processed and
\* End was not.
GestureActive == op.stage = "active" /\ op.kind \in {"scale", "transform"}

\* C24: a base snapshot is captured exactly while a gesture is active: absent
\* initially, present after ScaleStart or TransformStart, absent again once
\* the gesture's End event has been processed, for scale gestures as well as
\* for rotate/width gestures; hence an Update arriving after a gesture has
\* ended changes neither keypoints nor constraints.
C24_BaseExactlyWhileActive ==
    /\ (transformBase # <<>>) <=> GestureActive
    /\ (ev.name \in {"scale", "spin", "width"} /\ ~GestureActive) =>
           (keypoints = prev.keypoints /\ constraints = prev.constraints)

\* The scale slider moved after a scale gesture ended (factor 1.5, pointer
\* up, then the slider's value set to its start value): the base of the ended
\* gesture is still there and the pose jumps back to it.
C24_UpdateAfterScaleEnd ==
    /\ ev.name = "scale" /\ ~GestureActive
    /\ prev.transformBase # <<>> /\ transformBase = prev.transformBase
    /\ Current # Snapshot(prev.keypoints, prev.constraints)
    /\ Current = transformBase[1]

\* The lifecycle as far as the code keeps it: absent initially, present after
\* either Start and during the gesture, absent after the End of a
\* rotate/width gesture.
C24_LifecycleExceptScaleEnd ==
    /\ ev.name = "init" => transformBase = <<>>
    /\ GestureActive => transformBase = <<op.pre[1]>>
    /\ ev.name = "transformEnd" => transformBase = <<>>

\* C25: every operation, the asynchronous ones included, pushes onto past the
\* (keypoints, constraints) that are current immediately before it applies
\* its own result, even when other user operations are interleaved between
\* its start and its completion.  For a detection: its own clearing of the
\* constraints apart, the pose it pushed is the pose its result replaces.
\* For an import: the entry it pushes is the pose its result replaces.
C25_AsyncRecordsStateBeforeResult ==
    /\ (ev.name = "detectDone" /\ Len(DetectResults[ev.a]) = NumKeypoints) =>
           /\ prev.pending.detect[1].kps = prev.keypoints
           /\ prev.constraints = NoConstraints
    /\ (ev.name = "importLoaded" /\ ImportAccepted(LoadedFile)
          /\ LoadedFile.kpArray # <<>>) =>
           history.past[Len(history.past)]
               = Snapshot(prev.keypoints, prev.constraints)

\* A detection completes after the user hid a joint while it was running: the
\* pose replaced by the result is not the one the detection pushed, and it is
\* in no history entry.
C25_DetectionOverlapped ==
    /\ ev.name = "detectDone" /\ Len(DetectResults[ev.a]) = NumKeypoints
    /\ prev.pending.detect[1].kps # prev.keypoints
    /\ \A n \in 1 .. Len(history.past) : history.past[n].keypoints # prev.keypoints
    /\ keypoints = applyDetected(prev.keypoints, DetectResults[ev.a])

\* The same statement for operations that no other event overlaps.
C25_SequentialRecordsStateBeforeResult ==
    (op.stage = "done" /\ op.kind \in {"detect", "import"}) =>
        C25_AsyncRecordsStateBeforeResult

\* The stored distance d is the distance between a and b up to the rounding
\* of the coordinates and of d itself: |d - sqrt(sq)| <= 2.
NearDistance(d, a, b) ==
    /\ d >= 0
    /\ d > 2 => (d - 2) * (d - 2) <= SquaredDistance(a, b)
    /\ SquaredDistance(a, b) <= (d + 2) * (d + 2)

Consistent(kps, cons) ==
    \A k \in DOMAIN cons : NearDistance(cons[k], kps[k[1]], kps[k[2]])

\* C26: whenever no transform gesture is in progress, every stored
\* constraint's target distance equals the current Euclidean distance between
\* its two joints, after any sequence of constraint toggles, translate-mode
\* joint drags, whole-skeleton drags, flips, mirrors, completed scale
\* gestures, completed rotate/width gestures, undo and redo.
C26_ConstraintsConsistent ==
    ~GestureActive => Consistent(keypoints, constraints)

\* A mirror of a pose with locked limb lengths that were consistent before
\* it: the right arm is moved, the stored lengths are the old ones.
C26_MirrorBreaksConsistency ==
    /\ ev.name \in {"mirrorLeftToRight", "mirrorRightToLeft"}
    /\ Consistent(prev.keypoints, prev.constraints)
    /\ constraints = prev.constraints /\ constraints # NoConstraints
    /\ ~Consistent(keypoints, constraints)

\* C27: a joint whose locked flag is true never changes position as the
\* result of a drag, neither a translate-mode drag of another joint of its
\* constraint component nor a whole-skeleton (limb) drag.
C27_LockedJointNeverDragged ==
    ev.name \in {"mouseMoveJoint", "mouseMoveSkeleton"} =>
        \A i \in Ids :
            prev.keypoints[i].locked =>
                Positions(keypoints)[i] = Positions(prev.keypoints)[i]

\* A translate-mode drag of RShoulder, whose length to the locked Neck is
\* locked: Neck moves with it.
C27_LockedJointTranslated ==
    /\ ev.name = "mouseMoveJoint" /\ prev.app.lockedJointMode = "translate"
    /\ prev.editor.draggingId = 2
    /\ prev.keypoints[1].locked /\ <<1, 2>> \in DOMAIN prev.constraints
    /\ Positions(keypoints)[1] # Positions(prev.keypoints)[1]
    /\ Positions(keypoints)[0] = Positions(prev.keypoints)[0]

\* A whole-skeleton drag of a pose with a locked joint: the locked joint moves
\* like the others.
C27_LockedJointSkeletonDragged ==
    /\ ev.name = "mouseMoveSkeleton"
    /\ prev.keypoints[1].locked
    /\ Positions(keypoints)[1] # Positions(prev.keypoints)[1]

\* What is refused is the drag OF a locked joint: the dragged joint is never
\* a locked one.
C27_DraggedJointNotLocked ==
    ev.name = "mouseMoveJoint" => ~prev.keypoints[prev.editor.draggingId].locked

\* The last event is a constraint-resolution move of a joint whose only
\* constraint partner is exactly at the raw target.
DegenerateMove ==
    /\ ev.name = "mouseMoveJoint" /\ prev.app.lockedJointMode # "translate"
    /\ Cardinality(Touching(prev.constraints, Dragged)) = 1
    /\ \A k \in Touching(prev.constraints, Dragged) :
           Positions(prev.keypoints)[OtherEnd(k, Dragged)] = DragTarget

\* C28: in constraint-resolution mode, when the raw target coincides with the
\* position of the dragged joint's only constraint partner, the dragged joint
\* is not moved.
C28_DegenerateProjectionNoMovement ==
    DegenerateMove => Positions(keypoints)[Dragged] = Positions(prev.keypoints)[Dragged]

\* RElbow, locked at a length to RShoulder that is not zero, dragged onto
\* RShoulder: it lands on RShoulder.
C28_DegenerateMoveLandsOnPartner ==
    /\ DegenerateMove /\ Dragged = 3
    /\ prev.constraints[<<2, 3>>] > 0
    /\ Positions(prev.keypoints)[3] # Positions(prev.keypoints)[2]
    /\ Positions(keypoints)[3] = Positions(keypoints)[2]
    /\ Positions(keypoints)[3] = DragTarget

\* The sum over the constraints of S of the candidates
\* j + d * (target - j) / |target - j|, in 1/Fine units.
RECURSIVE ExpectedCandidates(_, _, _, _, _)
ExpectedCandidates(kps, cons, id, t, S) ==
    IF S = {} THEN <<0, 0>>
    ELSE LET k == CHOOSE e \in S : \A l \in S : e[1] + e[2] >= l[1] + l[2]
             j == kps[OtherEnd(k, id)]
             len == Sqrt(((t[1] - j.x) * (t[1] - j.x) + (t[2] - j.y) * (t[2] - j.y))
                           * Fine * Fine)               \* Fine * |target - j|
             rest == ExpectedCandidates(kps, cons, id, t, S \ {k})
         IN <<rest[1] + j.x * Fine + Div(cons[k] * (t[1] - j.x) * Fine * Fine, len),
              rest[2] + j.y * Fine + Div(cons[k] * (t[2] - j.y) * Fine * Fine, len)>>

\* The constraints touching the dragged joint whose partner is not at the
\* raw target.
CountedConstraints ==
    {k \in Touching(prev.constraints, Dragged) :
        Positions(prev.keypoints)[OtherEnd(k, Dragged)] # DragTarget}

\* C29: after a constraint-resolution move the dragged joint is at the
\* arithmetic mean, over the constraints touching it whose partner is not at
\* the target, of the candidates j + d * (target - j) / |target - j| (to
\* within one unit, the resolution of the coordinates); when no constraint
\* touches the dragged joint it is exactly at the raw target.
C29_ResolutionIsMeanOfCandidates ==
    (ev.name = "mouseMoveJoint" /\ prev.app.lockedJointMode # "translate") =>
        LET n == Cardinality(CountedConstraints)
            sum == ExpectedCandidates(prev.keypoints, prev.constraints, Dragged,
                                      DragTarget, CountedConstraints)
        IN /\ Touching(prev.constraints, Dragged) = {} =>
                  Positions(keypoints)[Dragged] = DragTarget
           /\ n > 0 =>
                  /\ Abs(keypoints[Dragged].x * n * Fine - sum[1]) <= n * Fine
                  /\ Abs(keypoints[Dragged].y * n * Fine - sum[2]) <= n * Fine

\* RElbow, with its lengths to RShoulder and to RWrist both locked, dragged to
\* a target away from both: it ends between the two candidates, off the
\* target and off both circles.
C29_Witness ==
    /\ ev.name = "mouseMoveJoint" /\ prev.app.lockedJointMode # "translate"
    /\ Dragged = 3
    /\ CountedConstraints = {<<2, 3>>, <<3, 4>>}
    /\ Positions(keypoints)[3] # DragTarget
    /\ Abs(Distance(keypoints[3].x, keypoints[3].y, keypoints[2].x, keypoints[2].y)
             - constraints[<<2, 3>>]) > 2
    /\ Abs(Distance(keypoints[3].x, keypoints[3].y, keypoints[4].x, keypoints[4].y)
             - constraints[<<3, 4>>]) > 2

\* C30: a constraint-resolution move changes only the dragged joint's
\* coordinates: every other joint (constraint partners included), every
\* joint's visible / locked / anchored flags, the constraint store and both
\* history stacks are unchanged.
C30_ResolutionMovesOnlyDragged ==
    (ev.name = "mouseMoveJoint" /\ prev.app.lockedJointMode # "translate") =>
        /\ \A i \in Ids \ {Dragged} : keypoints[i] = prev.keypoints[i]
        /\ keypoints[Dragged] = [prev.keypoints[Dragged] EXCEPT
                                    !.x = keypoints[Dragged].x,
                                    !.y = keypoints[Dragged].y]
        /\ constraints = prev.constraints
        /\ history = prev.history

\* RElbow, with its lengths to RShoulder and to RWrist locked, moved by a
\* constraint-resolution drag: it is the only joint that moved, and the
\* gesture's one history entry is the one pushed at the mouse-down.
C30_Witness ==
    /\ ev.name = "mouseMoveJoint" /\ prev.app.lockedJointMode # "translate"
    /\ Dragged = 3
    /\ Touching(prev.constraints, 3) = {<<2, 3>>, <<3, 4>>}
    /\ Positions(keypoints)[3] # Positions(prev.keypoints)[3]
    /\ history.past # <<>>


----------------------------------------------------------------------------
(* C31: after every joint-drag move event, in translate mode and in        *)
(* constraint-resolution mode, the dragged joint's coordinates lie within  *)
(* [0, width] x [0, height].                                               *)

OnCanvas(kp, size) ==
    /\ 0 <= kp.x /\ kp.x <= size.width
    /\ 0 <= kp.y /\ kp.y <= size.height

JointMove == ev.name = "mouseMoveJoint" /\ op.kind = "jointDrag" /\ op.stage = "active"

C31_DraggedJointOnCanvas ==
    JointMove => OnCanvas(keypoints[Dragged], prev.app.size)

\* What does hold: in translate mode the dragged joint is at the clamped
\* mouse position, and so on the canvas.
C31_TranslatedJointOnCanvas ==
    (JointMove /\ prev.app.lockedJointMode = "translate")
        => /\ <<keypoints[Dragged].x, keypoints[Dragged].y>> = DragTarget
           /\ OnCanvas(keypoints[Dragged], prev.app.size)

\* RWrist, its forearm locked to RElbow 30 units from the left edge, is
\* dragged in rotate mode and ends left of the canvas.
C31_ResolvedJointOffCanvas ==
    /\ JointMove
    /\ prev.app.lockedJointMode = "rotate"
    /\ Dragged = 4
    /\ <<3, 4>> \in DOMAIN prev.constraints
    /\ OnCanvas(prev.keypoints[4], prev.app.size)
    /\ keypoints[4].x < 0


----------------------------------------------------------------------------
(* C32: flip horizontal (vertical) reflects every joint's x (y) about an   *)
(* axis of the visible joints, newX = axis + (axis - x), for every pose    *)
(* with at least one visible joint.                                        *)

Flipped(coord) ==
    /\ ev.name = (IF coord = "x" THEN "flipHorizontal" ELSE "flipVertical")
    /\ \E i \in Ids : prev.keypoints[i].visible

Coord(kp, coord) == IF coord = "x" THEN kp.x ELSE kp.y

VisibleCoords(kps, coord) == {Coord(kps[i], coord) : i \in {j \in Ids : kps[j].visible}}

\* As stated, with the axis at the mean of the visible joints (to the nearest
\* unit): newX = 2 * sum / n - x.
C32_FlipsAboutCentroid ==
    \A coord \in {"x", "y"} :
        Flipped(coord) =>
            LET vis == {i \in Ids : prev.keypoints[i].visible}
                n == Cardinality(vis)
                sum == CoordSum(prev.keypoints, vis, coord)
            IN \A i \in Ids :
                   Nearest(Coord(keypoints[i], coord),
                           2 * sum - n * Coord(prev.keypoints[i], coord), n)

\* Amended: the axis is the centre of the visible joints' bounding box,
\* (min + max) / 2, so newX = min + max - x, exactly.
C32_FlipsAboutBoundingBoxCentre ==
    \A coord \in {"x", "y"} :
        Flipped(coord) =>
            LET cs == VisibleCoords(prev.keypoints, coord)
            IN \A i \in Ids :
                   Coord(keypoints[i], coord)
                       = SetMin(cs) + SetMax(cs) - Coord(prev.keypoints[i], coord)

\* A horizontal flip of a pose with hidden joints whose mean x differs from
\* the middle of its bounding box by more than a unit; a hidden joint is
\* reflected with the rest.
C32_Witness ==
    LET vis == {i \in Ids : prev.keypoints[i].visible}
        n == Cardinality(vis)
        cs == VisibleCoords(prev.keypoints, "x")
    IN /\ Flipped("x")
       /\ vis # Ids
       /\ Abs(2 * CoordSum(prev.keypoints, vis, "x") - n * (SetMin(cs) + SetMax(cs))) > 2 * n
       /\ \E i \in Ids \ vis :
              /\ keypoints[i].x # prev.keypoints[i].x
              /\ keypoints[i].x = SetMin(cs) + SetMax(cs) - prev.keypoints[i].x
       /\ Positions(keypoints) # Positions(prev.keypoints)


----------------------------------------------------------------------------
(* C33: flip horizontal changes no joint's y, visible, locked or anchored  *)
(* value and no constraint entry, and the distance between every pair of   *)
(* joints is the same before and after; symmetrically for flip vertical    *)
(* and x.                                                                  *)

C33_FlipTouchesOneCoordinate ==
    /\ ev.name = "flipHorizontal" =>
           \A i \in Ids : [keypoints[i] EXCEPT !.x = prev.keypoints[i].x] = prev.keypoints[i]
    /\ ev.name = "flipVertical" =>
           \A i \in Ids : [keypoints[i] EXCEPT !.y = prev.keypoints[i].y] = prev.keypoints[i]
    /\ ev.name \in {"flipHorizontal", "flipVertical"} =>
           /\ constraints = prev.constraints
           /\ \A i, j \in Ids :
                  SquaredDistance(keypoints[i], keypoints[j])
                      = SquaredDistance(prev.keypoints[i], prev.keypoints[j])

\* A flip that moved joints of a pose with a locked limb length, a locked
\* joint, an anchored joint and a hidden joint; the hidden joint moved too.
C33_Witness ==
    /\ ev.name \in {"flipHorizontal", "flipVertical"}
    /\ prev.constraints # NoConstraints
    /\ \E i \in Ids : prev.keypoints[i].locked
    /\ \E i \in Ids : prev.keypoints[i].anchored
    /\ \E i \in Ids : /\ ~prev.keypoints[i].visible
                      /\ Positions(keypoints)[i] # Positions(prev.keypoints)[i]
    /\ \E i, j \in Ids : SquaredDistance(prev.keypoints[i], prev.keypoints[j]) > 0


----------------------------------------------------------------------------
(* C34: between TransformStart and TransformEnd every Transform update     *)
(* changes joint coordinates only; the constraint store and both history   *)
(* stacks stay equal to their values right after TransformStart until      *)
(* TransformEnd runs.                                                      *)

\* A rotate/width gesture is between its start and its end.
TransformActive == op.kind = "transform" /\ op.stage = "active"

C34_TransformUpdatesKeepConstraints ==
    /\ TransformUpdate =>
           /\ \A i \in Ids :
                  [keypoints[i] EXCEPT !.x = prev.keypoints[i].x,
                                       !.y = prev.keypoints[i].y] = prev.keypoints[i]
           /\ constraints = prev.constraints
           /\ history = prev.history
    /\ TransformActive =>
           /\ constraints = op.pre[1].constraints
           /\ history = recordHistory(op.hist0[1], op.pre[1].keypoints,
                                      op.pre[1].constraints)

\* A width update that moved both joints of a locked limb: the stored length
\* is still the one from before the gesture and no longer the distance.
C34_Witness ==
    /\ TransformUpdate
    /\ ev.name = "width"
    /\ \E k \in DOMAIN constraints :
           /\ Positions(keypoints)[k[1]] # Positions(op.pre[1].keypoints)[k[1]]
           /\ Positions(keypoints)[k[2]] # Positions(op.pre[1].keypoints)[k[2]]
           /\ constraints[k] = op.pre[1].constraints[k]
           /\ ~NearDistance(constraints[k], keypoints[k[1]], keypoints[k[2]])
    /\ Len(history.past) = Len(op.hist0[1].past) + 1


----------------------------------------------------------------------------
(* C35: Transform(angle, w) maps a joint with base offset (rx, ry) from    *)
(* the pivot to pivot + R(angle) * (w * rx, ry); for angle = 90 degrees    *)
(* the new offset is (-ry, w * rx), for angle = 180 degrees it is          *)
(* (-w * rx, -ry), and Transform(0, 1) leaves every joint at its base      *)
(* position.                                                               *)

\* A handleTransform(angle, w) call inside a gesture; ev.a is the angle in
\* degrees and ev.b is w in percent.
TransformCall == ev.name = "transform" /\ op.kind = "transform" /\ op.stage = "active"

\* |v - a / b| <= 1
Within1(v, a, b) == Abs(v * b - a) <= b

\* The joint kp lies at pivot + (ox / od, oy / od), to the nearest unit.
AtOffset(kp, pivot, ox, oy, od) ==
    /\ Nearest(kp.x, pivot.x * od + ox * pivot.den, pivot.den * od)
    /\ Nearest(kp.y, pivot.y * od + oy * pivot.den, pivot.den * od)

C35_WidthThenRotation ==
    TransformCall =>
        LET base == op.pre[1].keypoints
            p == ExpectedPivot(base, prev.app.size)
            w == ev.b
            cs == CosSin(ev.a)
        IN \A i \in Ids :
               LET rx == base[i].x * p.den - p.x      \* base offset, over p.den
                   ry == base[i].y * p.den - p.y
               IN /\ ev.a = 90 => AtOffset(keypoints[i], p, -ry * 100, w * rx, p.den * 100)
                  /\ ev.a = 180 => AtOffset(keypoints[i], p, -w * rx, -ry * 100, p.den * 100)
                  /\ (ev.a = 0 /\ w = 100) =>
                         <<keypoints[i].x, keypoints[i].y>> = <<base[i].x, base[i].y>>
                  /\ Within1(keypoints[i].x,
                             p.x * 100 * TrigScale + w * rx * cs[1] - 100 * ry * cs[2],
                             p.den * 100 * TrigScale)
                  /\ Within1(keypoints[i].y,
                             p.y * 100 * TrigScale + w * rx * cs[2] + 100 * ry * cs[1],
                             p.den * 100 * TrigScale)
                  /\ [keypoints[i] EXCEPT !.x = base[i].x, !.y = base[i].y] = base[i]

\* Transform(90 degrees, 1/2) about an anchored pivot, of a joint whose base
\* offset has both components at least 10 units long: it ends at
\* (-ry, rx / 2), away from its base position and from (-ry / 2, rx), where
\* rotation before scaling would put it.
C35_Witness ==
    /\ TransformCall
    /\ ev.a = 90 /\ ev.b = 50
    /\ \E i \in Ids :
           LET base == op.pre[1].keypoints
               p == ExpectedPivot(base, prev.app.size)
               rx == base[i].x * p.den - p.x
               ry == base[i].y * p.den - p.y
           IN /\ \E j \in Ids : base[j].anchored
              /\ Abs(rx) >= 10 * p.den /\ Abs(ry) >= 10 * p.den
              /\ AtOffset(keypoints[i], p, -ry * 2, rx, p.den * 2)
              /\ ~AtOffset(keypoints[i], p, -ry, rx * 2, p.den * 2)
              /\ <<keypoints[i].x, keypoints[i].y>> # <<base[i].x, base[i].y>>


----------------------------------------------------------------------------
(* C36: after any sequence of operations reachable through the UI          *)
(* (constraint toggles from the sidebar list or a joint's context menu,    *)
(* drags, transforms, undo/redo, reset, import, detect), every key in the  *)
(* constraint store has the form a-b with a < b and {a, b} one of the 17   *)
(* limb pairs.                                                             *)

OnLimb(k) ==
    /\ k[1] < k[2]
    /\ \E n \in 1 .. Len(LIMB_PAIRS) : {k[1], k[2]} = {LIMB_PAIRS[n][1], LIMB_PAIRS[n][2]}

C36_ConstraintKeysOnLimbs ==
    /\ Len(LIMB_PAIRS) = 17
    /\ \A k \in DOMAIN constraints : OnLimb(k)
    /\ \A n \in 1 .. Len(history.past) : \A k \in DOMAIN history.past[n].constraints : OnLimb(k)
    /\ \A n \in 1 .. Len(history.future) : \A k \in DOMAIN history.future[n].constraints : OnLimb(k)

\* Neck-Nose, the limb pair listed as [1, 0], has just been locked: its key
\* is 0-1, next to the key of another limb.
C36_Witness ==
    /\ ev = [name |-> "toggleConstraint", a |-> 1, b |-> 0]
    /\ <<0, 1>> \in DOMAIN constraints
    /\ <<1, 0>> \notin DOMAIN constraints
    /\ Cardinality(DOMAIN constraints) = 2


----------------------------------------------------------------------------
(* C37: exporting the current pose to JSON and importing that same file    *)
(* yields, for every joint, the same visible flag and the same coordinates *)
(* (rounded to integers) as at export time.                                *)

\* reader.onload has just handled a file that an export wrote; the file's
\* keypoints_details are the joints at export time.
ExportedFileLoaded ==
    /\ ev.name = "importLoaded"
    /\ "details" \in DOMAIN LoadedFile

C37_ExportImportRoundTrip ==
    ExportedFileLoaded =>
        \A i \in Ids :
            /\ keypoints[i].visible = LoadedFile.details[i].visible
            /\ <<keypoints[i].x, keypoints[i].y>>
                   = <<LoadedFile.details[i].x, LoadedFile.details[i].y>>

\* What does hold: the coordinates come back, and so does the visible flag
\* of a visible joint away from the origin and of a hidden joint at it.
C37_CoordinatesRoundTrip ==
    ExportedFileLoaded =>
        \A i \in Ids :
            LET was == LoadedFile.details[i]
            IN /\ <<keypoints[i].x, keypoints[i].y>> = <<was.x, was.y>>
               /\ keypoints[i].visible = (was.x # 0 \/ was.y # 0)

\* RElbow, hidden at export time away from the origin, is visible after the
\* import of the exported file, whose confidence value for it is 0.
C37_HiddenJointImportedVisible ==
    /\ ExportedFileLoaded
    /\ ~LoadedFile.details[3].visible
    /\ LoadedFile.kpArray[1][3 * 3 + 3] = 0
    /\ ~prev.keypoints[3].visible
    /\ keypoints[3].visible

\* A joint dragged to the corner (0, 0), visible at export time, is hidden
\* after the import.
C37_VisibleJointImportedHidden ==
    /\ ExportedFileLoaded
    /\ \E i \in Ids : LoadedFile.details[i].visible /\ ~keypoints[i].visible


----------------------------------------------------------------------------
(* C38: every auto-detect invocation that sets isProcessing to true        *)
(* eventually sets it back to false, whether the detection succeeds,       *)
(* returns null or a non-18-length result, or throws; an invocation with   *)
(* no background image changes nothing (no history entry, no constraint    *)
(* change).                                                                *)

C38_DetectionAlwaysFinishes ==
    /\ app.isProcessing ~> ~app.isProcessing
    /\ [](ev.name = "autoDetect" => app.isProcessing)
    /\ [](ev.name = "detectDone" => ~app.isProcessing)
    /\ [](ev.name = "autoDetectNoImage" => Unchanged)

\* A detection that resolved to null or to 17 points has just finished:
\* isProcessing was true and is false, and the pose is the one from before.
C38_Witness ==
    /\ ev.name = "detectDone"
    /\ Len(DetectResults[ev.a]) # NumKeypoints
    /\ prev.app.isProcessing
    /\ ~app.isProcessing
    /\ keypoints = prev.keypoints

\* Auto-detect was invoked with no background image, after a limb length was
\* locked: the history and the constraint store are as before.
C38_NoImageWitness ==
    /\ ev.name = "autoDetectNoImage"
    /\ constraints # NoConstraints
    /\ history = prev.history /\ history.past # <<>>
    /\ constraints = prev.constraints
    /\ ~app.isProcessing

====
